---- MODULE Spec2Model ----
(***************************************************************************)
(* Model of the retrieval-augmented question answering server              *)
(* (src/server.js) and its task-routing agent (src/agent.js).              *)
(*                                                                         *)
(* Conventions.                                                            *)
(*  - A JavaScript string is a sequence of atoms; an atom is one           *)
(*    character or one indivisible word.  The atom " " is a whitespace     *)
(*    character.  "" is <<>>.                                              *)
(*  - A JavaScript value whose type the code inspects is tagged with its   *)
(*    type: Str(s), Num(n), Undef.                                         *)
(*  - A JavaScript object is a record; a property the object does not      *)
(*    have is a field missing from the record's DOMAIN.                    *)
(*  - The completion of an awaited call is Ret(v) (fulfilled with v) or    *)
(*    Thr(m) (rejected with an Error whose message is m).                  *)
(***************************************************************************)
EXTENDS Integers, Sequences, FiniteSets, TLC

\* ------------------------------------------------------------------ bounds
\* longest raw model response, in atoms
MaxTokens == 2
\* number of distinct passages the index may hold
NumChunks == 2
\* number of requests the server handles in one behaviour
MaxRequests == 1
\* number of queryCounter calls that run concurrently
MaxCallers == 2
\* largest number of upsert batches one indexing request needs
MaxBatches == 3
\* dimension of an embedding vector
VecDim == 2
\* number of distinct random id suffixes
NumSuffixes == 2
\* number of distinct clock readings
MaxTimes == 2
\* count in the counter file from which no further round of calls starts
MaxCount == 4

\* ------------------------------------------------------- program constants
TopK == 3
MaxQuestionLen == 1000
PreviewLen == 150
BatchSize == 100
ChunkSize == 500
MaxDocumentLen == 500000

\* ------------------------------------------------------------ JS values
Undef == [ty |-> "undefined"]
Str(s) == [ty |-> "string", v |-> s]
Num(n) == [ty |-> "number", v |-> n]
Arr(a) == [ty |-> "array", v |-> a]

Ret(v) == [kind |-> "return", value |-> v]
Thr(m) == [kind |-> "throw", message |-> m]

\* an external call and how it completed: "fulfilled", "rejected", or
\* "ENOENT" (readFile of a file that does not exist)
Ext(call, status) == [call |-> call, status |-> status]
St(c) == IF c.kind = "throw" THEN "rejected" ELSE "fulfilled"

Has(o, f) == f \in DOMAIN o
\* o.f, undefined when the property is missing (for tagged properties)
Get(o, f) == IF Has(o, f) THEN o[f] ELSE Undef

\* JavaScript truthiness of a tagged value
Truthy(v) ==
    CASE v.ty = "undefined" -> FALSE
      [] v.ty = "string" -> v.v # <<>>
      [] v.ty = "number" -> v.v # 0

Digit == <<"0", "1", "2", "3", "4", "5", "6", "7", "8", "9">>

\* Number.prototype.toString for a natural number
RECURSIVE NumToString(_)
NumToString(n) ==
    IF n < 10 THEN <<Digit[n + 1]>>
    ELSE NumToString(n \div 10) \o <<Digit[(n % 10) + 1]>>

\* string coercion inside a template literal
ToStr(v) ==
    CASE v.ty = "undefined" -> <<"undefined">>
      [] v.ty = "string" -> v.v
      [] v.ty = "number" -> NumToString(v.v)

IsSpace(a) == a = " "

RECURSIVE TrimStart(_)
TrimStart(s) ==
    IF s # <<>> /\ IsSpace(Head(s)) THEN TrimStart(Tail(s)) ELSE s

RECURSIVE TrimEnd(_)
TrimEnd(s) ==
    IF s # <<>> /\ IsSpace(s[Len(s)]) THEN TrimEnd(SubSeq(s, 1, Len(s) - 1)) ELSE s

\* String.prototype.trim
Trim(s) == TrimEnd(TrimStart(s))

\* String.prototype.substring(0, n)
Substring0(s, n) == SubSeq(s, 1, IF Len(s) < n THEN Len(s) ELSE n)

Reverse(s) == [i \in 1..Len(s) |-> s[Len(s) + 1 - i]]

\* Array.prototype.map over a sequence
Map(op(_), s) == [i \in 1..Len(s) |-> op(s[i])]

\* all sequences over S of length 0..n
SeqUpTo(S, n) == UNION {[1..k -> S] : k \in 0..n}

\* ------------------------------------------------------------ intents
ANSWER_QUESTION == <<"answer_question">>
SEARCH_KNOWLEDGE_BASE == <<"search_knowledge_base">>
GET_QUERY_COUNT == <<"get_query_count">>
UNKNOWN == <<"unknown">>

\* agent.js:70
knownIntents == {ANSWER_QUESTION, SEARCH_KNOWLEDGE_BASE, GET_QUERY_COUNT}

\* the closed enumeration of the data model
Intents == knownIntents \cup {UNKNOWN}

\* ------------------------------------------- TaskAgent.analyzeIntent
\* message of the TypeError raised by result.text.trim() when text is undefined
TrimTypeError == <<"Cannot read properties of undefined (reading 'trim')">>

\* llm is the completion of genAI.models.generateContent:
\* [kind |-> "text", text |-> r], [kind |-> "notext"] (a result whose text
\* is undefined) or Thr(m).

\* the try block of analyzeIntent: Ret({ intent }) or the exception raised
analyzeIntentTryMutantRaw(query, llm) ==
    IF llm.kind = "throw" THEN llm
    ELSE IF llm.kind = "notext" THEN Thr(TrimTypeError)
    ELSE Ret([intent |-> Trim(llm.text)])

analyzeIntentTryMutantNoTrim(query, llm) ==
    IF llm.kind = "throw" THEN llm
    ELSE IF llm.kind = "notext" THEN Thr(TrimTypeError)
    ELSE Ret([intent |-> IF llm.text \in knownIntents THEN llm.text ELSE UNKNOWN])

analyzeIntentTry(query, llm) ==
    IF llm.kind = "throw" THEN llm
    ELSE IF llm.kind = "notext" THEN Thr(TrimTypeError)
    ELSE LET responseText == Trim(llm.text)
             classifiedIntent ==
                 IF responseText \in knownIntents THEN responseText ELSE UNKNOWN
         IN  Ret([intent |-> classifiedIntent])

\* the catch block of analyzeIntent
analyzeIntentCatchMutantRethrow(c) == c

analyzeIntentCatch(c) ==
    IF c.kind = "throw" THEN Ret([intent |-> UNKNOWN, error |-> c.message]) ELSE c

\* analyzeIntent(query): the completion of the call
analyzeIntent(query, llm) == analyzeIntentCatch(analyzeIntentTry(query, llm))

\* ------------------------------------------------- server.js: retrieval
\* match => match.metadata?.text && typeof match.metadata.text === 'string'
HasTextMetadata(match) ==
    /\ Has(match, "metadata")
    /\ Has(match.metadata, "text")
    /\ Truthy(match.metadata.text)
    /\ match.metadata.text.ty = "string"

\* queryDocument(question); embed and index are the completions of
\* embeddings.embedQuery and index.query.  Returns the completion of the
\* call and the external calls it made, in order.
IndexQueryMutantAll(held, topK) == held

\* index.query({ vector, topK, includeMetadata: true }) on an index whose
\* matches for the vector are held, best first: the topK best
IndexQuery(held, topK) == SubSeq(held, 1, IF Len(held) < topK THEN Len(held) ELSE topK)

\* what index.query completes with, for the completion index of the store
IndexResponse(index) ==
    IF index.kind = "throw" THEN index ELSE Ret(IndexQuery(index.value, TopK))

queryDocumentMutantQueryAnyway(question, embed, index) ==
    IF question = <<>>
    THEN [res |-> Thr(<<"Invalid question provided">>), ext |-> <<>>]
    ELSE IF embed.kind = "throw"
    THEN [res |-> Thr(embed.message),
          ext |-> <<Ext("embedQuery", "rejected"), Ext("index.query", St(index))>>]
    ELSE IF index.kind = "throw"
    THEN [res |-> Thr(index.message),
          ext |-> <<Ext("embedQuery", "fulfilled"), Ext("index.query", "rejected")>>]
    ELSE LET matches == IndexResponse(index).value
             kept == SelectSeq(matches, HasTextMetadata)
             relevantChunks == Map(LAMBDA match : match.metadata.text.v, kept)
         IN  [res |-> Ret(relevantChunks),
              ext |-> <<Ext("embedQuery", "fulfilled"), Ext("index.query", "fulfilled")>>]

queryDocument(question, embed, index) ==
    IF question = <<>>
    THEN [res |-> Thr(<<"Invalid question provided">>), ext |-> <<>>]
    ELSE IF embed.kind = "throw"
    THEN [res |-> Thr(embed.message), ext |-> <<Ext("embedQuery", "rejected")>>]
    ELSE IF index.kind = "throw"
    THEN [res |-> Thr(index.message),
          ext |-> <<Ext("embedQuery", "fulfilled"), Ext("index.query", "rejected")>>]
    ELSE LET matches == IndexResponse(index).value
             kept == SelectSeq(matches, HasTextMetadata)
             relevantChunks == Map(LAMBDA match : match.metadata.text.v, kept)
         IN  [res |-> Ret(relevantChunks),
              ext |-> <<Ext("embedQuery", "fulfilled"), Ext("index.query", "fulfilled")>>]

\* the object searchKnowledgeBase returns from its catch block
SearchFailure(query, msg) ==
    [success |-> FALSE,
     query |-> query,
     results |-> <<>>,
     resultCount |-> 0,
     message |-> <<"Failed to perform knowledge base search: ">> \o msg,
     errorDetails |-> msg]

\* formattedResults; relevanceScore is in tenths (1 - index * 0.1)
FormatResultsMutantIncreasing(rawSearchResults) ==
    [i \in 1..Len(rawSearchResults) |->
        [chunkId |-> <<"chunk_">> \o NumToString(i - 1),
         content |-> Str(rawSearchResults[i]),
         relevanceScore |-> 10 - (Len(rawSearchResults) - i)]]

FormatResultsMutantReordered(rawSearchResults) ==
    [i \in 1..Len(rawSearchResults) |->
        [chunkId |-> <<"chunk_">> \o NumToString(i - 1),
         content |-> Str(rawSearchResults[Len(rawSearchResults) - i + 1]),
         relevanceScore |-> 10 - (i - 1)]]

FormatResults(rawSearchResults) ==
    [i \in 1..Len(rawSearchResults) |->
        [chunkId |-> <<"chunk_">> \o NumToString(i - 1),
         content |-> Str(rawSearchResults[i]),
         relevanceScore |-> 10 - (i - 1)]]

\* searchKnowledgeBase(query): never rejects; failures become success: false
searchKnowledgeBase(query, embed, index) ==
    IF query = <<>> \/ Trim(query) = <<>>
    THEN [res |-> Ret(SearchFailure(query, <<"Query cannot be empty or invalid.">>)),
          ext |-> <<>>]
    ELSE LET raw == queryDocument(query, embed, index)
         IN  IF raw.res.kind = "throw"
             THEN [res |-> Ret(SearchFailure(query, raw.res.message)), ext |-> raw.ext]
             ELSE LET formattedResults == FormatResults(raw.res.value)
                  IN  [res |-> Ret([success |-> TRUE,
                                    query |-> query,
                                    results |-> formattedResults,
                                    resultCount |-> Len(formattedResults),
                                    message |-> IF Len(formattedResults) > 0
                                                THEN <<"Search completed successfully.">>
                                                ELSE <<"No relevant results found.">>]),
                        ext |-> raw.ext]

\* ------------------------------------------------ server.js: generation
\* context.map((c, i) => `[${i + 1}] ${c}`).join("\n\n")
RECURSIVE JoinContext(_, _)
JoinContext(context, i) ==
    IF i > Len(context) THEN <<>>
    ELSE (IF i > 1 THEN <<"\n\n">> ELSE <<>>)
         \o <<"[">> \o NumToString(i) \o <<"] ">> \o ToStr(context[i])
         \o JoinContext(context, i + 1)

BuildPromptMutantReversed(question, context) ==
    <<"You are a helpful assistant. ",
      "Answer the question using ONLY the provided context.",
      "\nIf the answer is not found in the context, state that clearly and do not make up information.\n\n",
      "Question: ">>
    \o question \o <<"\n\nContext:\n">> \o JoinContext(Reverse(context), 1)
    \o <<"\n\nAnswer with citations (e.g., [1], [2]):">>

BuildPrompt(question, context) ==
    <<"You are a helpful assistant. ",
      "Answer the question using ONLY the provided context.",
      "\nIf the answer is not found in the context, state that clearly and do not make up information.\n\n",
      "Question: ">>
    \o question \o <<"\n\nContext:\n">> \o JoinContext(context, 1)
    \o <<"\n\nAnswer with citations (e.g., [1], [2]):">>

NoContextMessage == <<"No context available for answer generation">>

\* the call of ai.models.generateContent with a prompt, and its completion
LlmCall(by, prompt, llm) ==
    [call |-> "generateContent", by |-> by, status |-> St(llm), prompt |-> prompt]

\* what generateAnswer returns once the model call has completed
AnswerOf(llm) ==
    IF llm.kind = "throw" THEN Thr(llm.message)
    ELSE IF llm.kind = "notext" THEN Ret(Undef)
    ELSE Ret(Str(llm.text))

\* generateAnswer(question, context); llm is the completion of
\* ai.models.generateContent.  ext lists the model calls made.
generateAnswerMutantNoGuard(question, context, llm) ==
    [res |-> AnswerOf(llm), ext |-> <<LlmCall("generateAnswer", BuildPrompt(question, context), llm)>>]

generateAnswer(question, context, llm) ==
    IF Len(context) = 0
    THEN [res |-> Thr(NoContextMessage), ext |-> <<>>]
    ELSE LET prompt == BuildPrompt(question, context)
         IN  [res |-> AnswerOf(llm), ext |-> <<LlmCall("generateAnswer", prompt, llm)>>]

\* ---------------------------------------------- server.js: query counter
\* the count file: [exists |-> FALSE] or [exists |-> TRUE, data |-> string]
NoFile == [exists |-> FALSE]
File(data) == [exists |-> TRUE, data |-> data]

DigitValue(a) == CHOOSE d \in 0..9 : Digit[d + 1] = a
IsDigit(a) == \E d \in 0..9 : Digit[d + 1] = a

RECURSIVE ParseDigits(_, _)
ParseDigits(s, acc) ==
    IF s # <<>> /\ IsDigit(Head(s))
    THEN ParseDigits(Tail(s), acc * 10 + DigitValue(Head(s)))
    ELSE acc

\* parseInt(data, 10) for unsigned input: [nan |-> TRUE] or [nan |-> FALSE, n |-> value]
ParseInt(data) ==
    LET s == TrimStart(data)
    IN  IF s # <<>> /\ IsDigit(Head(s))
        THEN [nan |-> FALSE, n |-> ParseDigits(s, 0)]
        ELSE [nan |-> TRUE]

CounterFailure == <<"Failed to update query count.">>

\* queryCounter(); fsys is what the file system does: "ok", or the call
\* that fails ("mkdir", "readFile" with a code other than ENOENT,
\* "writeFile").  Returns the completion, the file afterwards and the
\* file-system calls made.
queryCounter(file, fsys) ==
    LET readStatus == IF file.exists THEN "fulfilled" ELSE "ENOENT"
        parsed == IF file.exists THEN ParseInt(file.data) ELSE [nan |-> TRUE]
        currentCount == (IF parsed.nan THEN 0 ELSE parsed.n) + 1
    IN  IF fsys = "mkdir"
        THEN [res |-> Thr(CounterFailure), file |-> file,
              ext |-> <<Ext("mkdir", "rejected")>>]
        ELSE IF fsys = "readFile"
        THEN [res |-> Thr(CounterFailure), file |-> file,
              ext |-> <<Ext("mkdir", "fulfilled"), Ext("readFile", "rejected")>>]
        ELSE IF fsys = "writeFile"
        THEN [res |-> Thr(CounterFailure), file |-> file,
              ext |-> <<Ext("mkdir", "fulfilled"), Ext("readFile", readStatus),
                        Ext("writeFile", "rejected")>>]
        ELSE [res |-> Ret(currentCount), file |-> File(NumToString(currentCount)),
              ext |-> <<Ext("mkdir", "fulfilled"), Ext("readFile", readStatus),
                        Ext("writeFile", "fulfilled")>>]

\* ------------------------------------------- TaskAgent.executeTools
\* the prompt analyzeIntent sends (agent.js:51-60)
ClassifyPrompt(query) ==
    <<"Classify the following user query into one of these categories: ... Respond with only the category name.\n\nQuery: \"">>
    \o query \o <<"\"\nCategory:">>

ANSWER == <<"answer">>
SEARCH == <<"search">>
QUERY_COUNT == <<"query_count">>
ERROR == <<"error">>

\* the closed set of ToolOutput variants
Variants == {ANSWER, SEARCH, QUERY_COUNT, ERROR}

NoInfoText ==
    <<"I couldn't find any relevant information in the document store to answer that question.">>
UnknownRequestText == <<"I don't understand that request.">>
ErrorPrefix == <<"An error occurred while processing your request: ">>

IsUndef(v) == Has(v, "ty") /\ v.ty = "undefined"

\* { type: t, ...o }: the properties of o, with type t unless o has its own
Spread(t, o) ==
    IF IsUndef(o) THEN [type |-> t]
    ELSE [f \in DOMAIN o \cup {"type"} |-> IF f \in DOMAIN o THEN o[f] ELSE t]

\* A step of executeTools ends in Ret(output), in Thr(m) (an exception
\* raised inside the try block), or in [kind |-> "await", ...] (the next
\* collaborator call).

NoInfoOutput == [type |-> ANSWER, answer |-> Str(NoInfoText), chunksRetrieved |-> 0]

\* case "answer_question", after searchKnowledgeBase completed with skb
AnswerBranchMutantAlwaysGenerate(skb) ==
    IF skb.kind = "throw" THEN skb
    ELSE LET searchResults == skb.value
         IN  IF IsUndef(searchResults)
             THEN Thr(<<"Cannot read properties of undefined (reading 'success')">>)
             ELSE IF Has(searchResults, "success") /\ searchResults.success
             THEN IF ~Has(searchResults, "results")
                  THEN Thr(<<"Cannot read properties of undefined (reading 'length')">>)
                  ELSE [kind |-> "await", fn |-> "generateAnswer",
                        context |-> Map(LAMBDA r : Get(r, "content"), searchResults.results),
                        searchResults |-> searchResults.results]
             ELSE Ret(NoInfoOutput)

AnswerBranchMutantReversed(skb) ==
    IF skb.kind = "throw" THEN skb
    ELSE LET searchResults == skb.value
         IN  IF IsUndef(searchResults)
             THEN Thr(<<"Cannot read properties of undefined (reading 'success')">>)
             ELSE IF Has(searchResults, "success") /\ searchResults.success
             THEN IF ~Has(searchResults, "results")
                  THEN Thr(<<"Cannot read properties of undefined (reading 'length')">>)
                  ELSE IF Len(searchResults.results) > 0
                  THEN [kind |-> "await", fn |-> "generateAnswer",
                        context |-> Reverse(Map(LAMBDA r : Get(r, "content"),
                                                searchResults.results)),
                        searchResults |-> searchResults.results]
                  ELSE Ret(NoInfoOutput)
             ELSE Ret(NoInfoOutput)

AnswerBranch(skb) ==
    IF skb.kind = "throw" THEN skb
    ELSE LET searchResults == skb.value
         IN  IF IsUndef(searchResults)
             THEN Thr(<<"Cannot read properties of undefined (reading 'success')">>)
             ELSE IF Has(searchResults, "success") /\ searchResults.success
             THEN IF ~Has(searchResults, "results")
                  THEN Thr(<<"Cannot read properties of undefined (reading 'length')">>)
                  ELSE IF Len(searchResults.results) > 0
                  THEN [kind |-> "await", fn |-> "generateAnswer",
                        context |-> Map(LAMBDA r : Get(r, "content"), searchResults.results),
                        searchResults |-> searchResults.results]
                  ELSE Ret(NoInfoOutput)
             ELSE Ret(NoInfoOutput)

\* case "answer_question", after generateAnswer completed with gen
AnswerBranchGenerated(context, searchResults, gen) ==
    IF gen.kind = "throw" THEN gen
    ELSE Ret([type |-> ANSWER, answer |-> gen.value,
              chunksRetrieved |-> Len(context), searchResults |-> searchResults])

\* case "search_knowledge_base", after searchKnowledgeBase completed
SearchBranchMutantAnswer(skb) == AnswerBranch(skb)

SearchBranch(skb) ==
    IF skb.kind = "throw" THEN skb ELSE Ret(Spread(SEARCH, skb.value))

\* case "get_query_count", after queryCounter completed
CountBranchMutantOffByOne(cnt) ==
    IF cnt.kind = "throw" THEN cnt ELSE Ret([type |-> QUERY_COUNT, count |-> cnt.value + 1])

CountBranch(cnt) ==
    IF cnt.kind = "throw" THEN cnt ELSE Ret([type |-> QUERY_COUNT, count |-> cnt.value])

\* case "unknown" and default
UnknownBranch == Ret([type |-> ERROR, message |-> UnknownRequestText])

\* the catch block of executeTools
executeToolsCatchMutantRethrow(step) == step

executeToolsCatch(step) ==
    IF step.kind = "throw"
    THEN Ret([type |-> ERROR, message |-> ErrorPrefix \o step.message])
    ELSE step

\* the collaborator executeTools calls first for an intent, "none" if none
FirstCallMutantDefaultSearch(intent) ==
    IF intent = GET_QUERY_COUNT THEN "queryCounter" ELSE "searchKnowledgeBase"

FirstCall(intent) ==
    IF intent \in {ANSWER_QUESTION, SEARCH_KNOWLEDGE_BASE} THEN "searchKnowledgeBase"
    ELSE IF intent = GET_QUERY_COUNT THEN "queryCounter"
    ELSE "none"

\* executeTools resumed after its first collaborator call completed with c
executeToolsOnFirst(intent, c) ==
    executeToolsCatch(
        IF intent = ANSWER_QUESTION THEN AnswerBranch(c)
        ELSE IF intent = SEARCH_KNOWLEDGE_BASE THEN SearchBranch(c)
        ELSE CountBranch(c))

\* executeTools resumed after generateAnswer completed with gen
executeToolsOnGenerate(context, searchResults, gen) ==
    executeToolsCatch(AnswerBranchGenerated(context, searchResults, gen))

\* ----------------------------------------- TaskAgent.generateResponse
FallbackText == <<"I'm sorry, I couldn't process that request fully. Please try again.">>
NoResultsText == <<"No relevant documents found for your search query in the knowledge base.">>

CountOnlyText(n) ==
    <<"Found ">> \o NumToString(n) \o <<" relevant results in the knowledge base.">>

SearchResponseMutantNoTruncate(toolOutput) ==
    LET success == Has(toolOutput, "success") /\ toolOutput.success
        hasCount == Has(toolOutput, "resultCount")
    IN  IF success /\ hasCount /\ toolOutput.resultCount > 0
        THEN IF /\ Has(toolOutput, "results")
                /\ Len(toolOutput.results) > 0
                /\ Truthy(Get(toolOutput.results[1], "content"))
                /\ toolOutput.results[1].content.ty = "string"
             THEN Ret(Str(<<"Found ">> \o NumToString(toolOutput.resultCount)
                      \o <<" relevant results. Here's a snippet from the top result: \"">>
                      \o toolOutput.results[1].content.v \o <<"...">> \o <<"\"">>))
             ELSE Ret(Str(CountOnlyText(toolOutput.resultCount)))
        ELSE Ret(Str(<<>>))

SearchResponseMutantNoGuard(toolOutput) ==
    LET success == Has(toolOutput, "success") /\ toolOutput.success
        hasCount == Has(toolOutput, "resultCount")
    IN  IF success /\ hasCount /\ toolOutput.resultCount > 0
        THEN IF /\ Has(toolOutput, "results")
                /\ Len(toolOutput.results) > 0
                /\ Truthy(Get(toolOutput.results[1], "content"))
                /\ toolOutput.results[1].content.ty = "string"
             THEN Ret(Str(<<"Found ">> \o NumToString(toolOutput.resultCount)
                      \o <<" relevant results. Here's a snippet from the top result: \"">>
                      \o Substring0(toolOutput.results[1].content.v, PreviewLen)
                      \o <<"...">> \o <<"\"">>))
             ELSE Thr(<<"Cannot read properties of undefined (reading 'substring')">>)
        ELSE Ret(Str(<<>>))

\* case "search"
SearchResponse(toolOutput) ==
    LET success == Has(toolOutput, "success") /\ toolOutput.success
        hasCount == Has(toolOutput, "resultCount")
    IN  IF success /\ hasCount /\ toolOutput.resultCount > 0
        THEN IF /\ Has(toolOutput, "results")
                /\ Len(toolOutput.results) > 0
                /\ Truthy(Get(toolOutput.results[1], "content"))
             THEN LET content == toolOutput.results[1].content
                  IN  IF content.ty # "string"
                      THEN Thr(<<"toolOutput.results[0].content.substring is not a function">>)
                      ELSE Ret(Str(<<"Found ">> \o NumToString(toolOutput.resultCount)
                               \o <<" relevant results. Here's a snippet from the top result: \"">>
                               \o Substring0(content.v, PreviewLen) \o <<"...">> \o <<"\"">>))
             ELSE Ret(Str(CountOnlyText(toolOutput.resultCount)))
        ELSE IF success /\ hasCount /\ toolOutput.resultCount = 0
        THEN Ret(Str(NoResultsText))
        ELSE Ret(Str(<<"I encountered an issue while searching the knowledge base: ">>
                 \o (IF Has(toolOutput, "message") THEN toolOutput.message
                     ELSE <<"undefined">>)))

\* generateResponse(intent, toolOutput): Ret(value returned) or Thr(m)
generateResponse(intent, toolOutput) ==
    LET type == IF Has(toolOutput, "type") THEN toolOutput.type ELSE <<>>
    IN  IF type = ANSWER THEN Ret(Get(toolOutput, "answer"))
        ELSE IF type = SEARCH THEN SearchResponse(toolOutput)
        ELSE IF type = QUERY_COUNT
        THEN Ret(Str(<<"The total number of queries processed so far is: ">>
                 \o (IF Has(toolOutput, "count") THEN NumToString(toolOutput.count)
                     ELSE <<"undefined">>)
                 \o <<".">>))
        ELSE IF type = ERROR
        THEN Ret(IF Has(toolOutput, "message") THEN Str(toolOutput.message) ELSE Undef)
        ELSE Ret(Str(FallbackText))

\* ------------------------------------------------------------ inputs
Tokens == {" ", "answer_question", "search_knowledge_base", "get_query_count",
           "unknown", "other"}

\* raw texts the intent model may answer with
RawResponses == SeqUpTo(Tokens, MaxTokens)

\* messages of the errors external services reject with ("" included)
ErrorMessages == {<<>>, <<"service unavailable">>}

\* completions of the model call made by analyzeIntent
IntentCompletions ==
    {[kind |-> "text", text |-> r] : r \in RawResponses}
    \cup {[kind |-> "notext"]}
    \cup {Thr(m) : m \in ErrorMessages}

LongQuestion == [i \in 1..(MaxQuestionLen + 1) |-> "a"]

\* request bodies' question property (always a string here)
Questions == {<<>>, <<" ">>, <<"w", "h", "o", "?">>,
              <<"h", "o", "w", " ", "m", "a", "n", "y">>, LongQuestion}

ChunkTexts == {<<"p">> \o NumToString(i) : i \in 1..NumChunks}

\* matches the vector index may return
Matches ==
    {[metadata |-> [text |-> Str(c)]] : c \in ChunkTexts}
    \cup {[metadata |-> [timestamp |-> <<"t">>]],
          [id |-> <<"x">>],
          [metadata |-> [text |-> Num(7)]]}

EmbedCompletions == {Ret(<<"vector">>), Thr(<<"embedding failed">>)}

\* similarity scores of the matches by rank, in tenths, best first
ScoreProfiles == {[i \in 1..(TopK + 1) |-> 10 - (i - 1)],
                  [i \in 1..(TopK + 1) |-> 9 - 2 * (i - 1)]}

\* the match with the score the store computed for it
WithScore(match, score) ==
    [f \in DOMAIN match \cup {"score"} |-> IF f = "score" THEN score ELSE match[f]]

\* the matches ranked by the store with the scores of a profile
Ranked(matches, profile) ==
    [i \in 1..Len(matches) |-> WithScore(matches[i], profile[i])]

\* what the store holds for a query vector, best first: up to topK matches,
\* or one match more than topK; or the query fails
IndexCompletions ==
    {Ret(Ranked(m, sp)) :
        m \in SeqUpTo(Matches, TopK) \cup {[i \in 1..(TopK + 1) |-> x] : x \in Matches},
        sp \in ScoreProfiles}
    \cup {Thr(<<"index unavailable">>)}

\* completions of the model call made by generateAnswer
AnswerCompletions ==
    {[kind |-> "text", text |-> <<"Paris [1]">>], [kind |-> "notext"]}
    \cup {Thr(m) : m \in ErrorMessages}

FsOutcomes == {"ok", "mkdir", "readFile", "writeFile"}

NodeEnvs == {"development", "production", "test"}

\* count files the server may start with: none, a count, a corrupted file
InitialCountFiles == {NoFile, File(<<"1">>), File(<<"x">>)}

\* ------------------------------------------------------------- state
VARIABLES
    pc,           \* position of the request being handled
    reqs,         \* requests received so far
    nodeEnv,      \* NODE_ENV
    question,     \* req.body.question; the query of a direct call
    llmResult,    \* completion of the model call inside analyzeIntent
    intentResult, \* what analyzeIntent returned
    intent,       \* the intent handed to executeTools
    pending,      \* executeTools suspended at its second await
    toolResult,   \* completion of executeTools
    finalAnswer,  \* completion of generateResponse
    calls,        \* collaborator calls made by executeTools, with completions
    ext,          \* external calls made for this request, in order
    response,     \* the HTTP response sent
    countFile,    \* logs/query-count.txt
    logFile,      \* logs/query-log.txt, as a sequence of entries
    ixPc,         \* position of the indexing request being handled
    documentText, \* req.body.documentText
    chunks,       \* what processDocument returned
    vectors,      \* what generateEmbeddings returned
    records,      \* the records storeInPinecone built
    batchStart,   \* the loop variable i of storeInPinecone
    ixExt,        \* external calls made for the indexing request, in order
    ixResponse,   \* the HTTP response of the indexing request
    stored,       \* the records held by the vector index
    ctr           \* the queryCounter calls in progress, one per caller

\* the variables of the indexing request
ixVars == <<ixPc, documentText, chunks, vectors, records, batchStart, ixExt,
            ixResponse, stored>>

\* the variables of the query request
queryVars == <<pc, reqs, question, llmResult, intentResult, intent, pending,
               toolResult, finalAnswer, calls, ext, response, logFile>>

vars == <<pc, reqs, nodeEnv, question, llmResult, intentResult, intent, pending,
          toolResult, finalAnswer, calls, ext, response, countFile, logFile,
          ixPc, documentText, chunks, vectors, records, batchStart, ixExt,
          ixResponse, stored, ctr>>

None == [kind |-> "none"]

Call(fn, args, res) == [fn |-> fn, args |-> args, res |-> res]

\* callers of queryCounter that may run concurrently
Callers == 1..MaxCallers

\* no query request has been received
InitQuery ==
    /\ pc = "idle"
    /\ reqs = 0
    /\ question = <<>>
    /\ llmResult = None
    /\ intentResult = None
    /\ intent = <<>>
    /\ pending = None
    /\ toolResult = None
    /\ finalAnswer = None
    /\ calls = <<>>
    /\ ext = <<>>
    /\ response = None
    /\ logFile = <<>>

\* no indexing request has been received
InitIx ==
    /\ ixPc = "idle"
    /\ documentText = <<>>
    /\ chunks = <<>>
    /\ vectors = <<>>
    /\ records = <<>>
    /\ batchStart = 0
    /\ ixExt = <<>>
    /\ ixResponse = None

\* no queryCounter call has started
InitCtr == ctr = [p \in Callers |-> [pc |-> "idle"]]

Init ==
    /\ InitQuery
    /\ nodeEnv \in NodeEnvs
    /\ countFile \in InitialCountFiles
    /\ InitIx
    /\ stored = {}
    /\ InitCtr

\* ------------------------------------- POST /api/answer-question
WithDetailsMutantNotProduction(body, detail) ==
    IF nodeEnv # "production"
    THEN [f \in DOMAIN body \cup {"details"} |->
             IF f = "details" THEN detail ELSE body[f]]
    ELSE body

\* NODE_ENV === 'development' ? detail : undefined
WithDetails(body, detail) ==
    IF nodeEnv = "development"
    THEN [f \in DOMAIN body \cup {"details"} |->
             IF f = "details" THEN detail ELSE body[f]]
    ELSE body

BadRequest(msg) == [status |-> 400, body |-> [error |-> msg, success |-> FALSE]]

\* logQuery(query, answer, chunksRetrieved, duration); a file-system
\* failure is logged to the console and swallowed
logQuery(log, query, answer, chunksRetrieved, fsOk) ==
    IF fsOk
    THEN Append(log, [query |-> query, answer |-> answer,
                      chunksRetrieved |-> chunksRetrieved])
    ELSE log

\* validation (server.js:365-379), then the request enters the pipeline
Receive ==
    /\ pc \in {"idle", "done"}
    /\ reqs < MaxRequests
    /\ reqs' = reqs + 1
    /\ \E q \in Questions :
        /\ question' = q
        /\ IF q = <<>> \/ Trim(q) = <<>>
           THEN /\ response' = BadRequest(<<"Question is required and cannot be empty.">>)
                /\ pc' = "done"
           ELSE IF Len(q) > MaxQuestionLen
           THEN /\ response' = BadRequest(<<"Question exceeds maximum length of 1,000 characters.">>)
                /\ pc' = "done"
           ELSE /\ response' = None
                /\ pc' = "analyze"
    /\ llmResult' = None
    /\ intentResult' = None
    /\ intent' = <<>>
    /\ pending' = None
    /\ toolResult' = None
    /\ finalAnswer' = None
    /\ calls' = <<>>
    /\ ext' = <<>>
    /\ UNCHANGED <<ixVars, ctr, nodeEnv, countFile, logFile>>

\* the catch block of the handler (server.js:438-451)
HandlerCatch(msg, fsOk) ==
    /\ logFile' = logQuery(logFile, question, <<"Error: ">> \o msg, 0, fsOk)
    /\ response' =
          [status |-> 500,
           body |-> WithDetails([error |-> <<"An unexpected internal server error occurred.">>,
                                 success |-> FALSE], msg)]

\* step 1: analyzeIntent, and the intentError early return (server.js:384-394)
Analyze ==
    /\ pc = "analyze"
    /\ \E llm \in IntentCompletions :
        LET r == analyzeIntent(question, llm)
        IN  /\ llmResult' = llm
            /\ intentResult' = r
            /\ ext' = Append(ext, LlmCall("analyzeIntent", ClassifyPrompt(question), llm))
            /\ IF r.kind = "throw"
               THEN /\ \E fsOk \in BOOLEAN : HandlerCatch(r.message, fsOk)
                    /\ pc' = "done"
                    /\ UNCHANGED intent
               ELSE LET intentError == IF Has(r.value, "error") THEN r.value.error ELSE <<>>
                    IN  IF intentError # <<>>
                        THEN /\ response' =
                                   [status |-> 500,
                                    body |-> WithDetails(
                                        [error |-> <<"Failed to understand your request.">>,
                                         success |-> FALSE], intentError)]
                             /\ pc' = "done"
                             /\ UNCHANGED <<intent, logFile>>
                        ELSE /\ intent' = r.value.intent
                             /\ pc' = "exec"
                             /\ UNCHANGED <<response, logFile>>
    /\ UNCHANGED <<ixVars, ctr, reqs, nodeEnv, question, pending, toolResult, finalAnswer,
                   calls, countFile>>

ResumeMutantNeverSettles(step) ==
    /\ pending' = None
    /\ toolResult' = None
    /\ pc' = "waiting"

\* what executeTools does once a step has completed with step
Resume(step) ==
    IF step.kind = "await"
    THEN /\ pending' = step
         /\ pc' = "generate"
         /\ UNCHANGED toolResult
    ELSE /\ pending' = None
         /\ toolResult' = step
         /\ pc' = "respond"

\* step 2: executeTools calls searchKnowledgeBase (server.js:137)
ExecSearch ==
    /\ pc = "exec"
    /\ FirstCall(intent) = "searchKnowledgeBase"
    /\ \E embed \in EmbedCompletions, index \in IndexCompletions :
        LET s == searchKnowledgeBase(question, embed, index)
        IN  /\ calls' = Append(calls, Call("searchKnowledgeBase", <<question>>, s.res))
            /\ ext' = ext \o s.ext
            /\ Resume(executeToolsOnFirst(intent, s.res))
    /\ llmResult' = None
    /\ UNCHANGED <<ixVars, ctr, reqs, nodeEnv, question, intentResult, intent, finalAnswer,
                   response, countFile, logFile>>

\* executeTools calls generateAnswer (server.js:177)
ExecGenerate ==
    /\ pc = "generate"
    /\ \E llm \in AnswerCompletions :
        LET g == generateAnswer(question, pending.context, llm)
        IN  /\ calls' = Append(calls, Call("generateAnswer",
                                          <<question, pending.context>>, g.res))
            /\ ext' = ext \o g.ext
            /\ Resume(executeToolsOnGenerate(pending.context, pending.searchResults, g.res))
    /\ UNCHANGED <<ixVars, ctr, reqs, nodeEnv, question, llmResult, intentResult, intent,
                   finalAnswer, response, countFile, logFile>>

\* executeTools calls queryCounter (server.js:227)
ExecCounter ==
    /\ pc = "exec"
    /\ FirstCall(intent) = "queryCounter"
    /\ \E fsys \in FsOutcomes :
        LET c == queryCounter(countFile, fsys)
        IN  /\ calls' = Append(calls, Call("queryCounter", <<>>, c.res))
            /\ ext' = ext \o c.ext
            /\ countFile' = c.file
            /\ Resume(executeToolsOnFirst(intent, c.res))
    /\ llmResult' = None
    /\ UNCHANGED <<ixVars, ctr, reqs, nodeEnv, question, intentResult, intent, finalAnswer,
                   response, logFile>>

\* executeTools with "unknown" or any other intent: no collaborator call
ExecUnknown ==
    /\ pc = "exec"
    /\ FirstCall(intent) = "none"
    /\ Resume(executeToolsCatch(UnknownBranch))
    /\ llmResult' = None
    /\ UNCHANGED <<ixVars, ctr, reqs, nodeEnv, question, intentResult, intent, finalAnswer,
                   calls, ext, response, countFile, logFile>>

\* the API response built from the tool output (server.js:416-433)
ApiResponse(toolOutput, answer) ==
    LET type == IF Has(toolOutput, "type") THEN toolOutput.type ELSE <<>>
    IN  IF type = ANSWER
        THEN [answer |-> answer, success |-> TRUE,
              chunksRetrieved |-> toolOutput.chunksRetrieved]
        ELSE IF type = SEARCH
        THEN [answer |-> answer, success |-> TRUE,
              searchResults |-> toolOutput.results,
              resultCount |-> toolOutput.resultCount]
        ELSE IF type = QUERY_COUNT
        THEN [answer |-> answer, success |-> TRUE, queryCount |-> toolOutput.count]
        ELSE [answer |-> answer, success |-> FALSE, error |-> answer]

\* steps 3 and after: generateResponse, logQuery, res.json (server.js:402-436)
Respond ==
    /\ pc = "respond"
    /\ \E fsOk \in BOOLEAN :
        IF toolResult.kind = "throw"
        THEN /\ HandlerCatch(toolResult.message, fsOk)
             /\ UNCHANGED finalAnswer
        ELSE LET toolOutput == toolResult.value
                 fa == generateResponse(intent, toolOutput)
             IN  /\ finalAnswer' = fa
                 /\ IF fa.kind = "throw"
                    THEN HandlerCatch(fa.message, fsOk)
                    ELSE LET api == ApiResponse(toolOutput, fa.value)
                         IN  /\ logFile' =
                                  IF toolOutput.type # ERROR
                                  THEN logQuery(logFile, question, ToStr(fa.value),
                                                IF Has(toolOutput, "chunksRetrieved")
                                                THEN toolOutput.chunksRetrieved ELSE 0,
                                                fsOk)
                                  ELSE logQuery(logFile, question,
                                                <<"Error: ">> \o ToStr(fa.value), 0, fsOk)
                             /\ response' = [status |-> IF api.success THEN 200 ELSE 500,
                                             body |-> api]
    /\ pc' = "done"
    /\ UNCHANGED <<ixVars, ctr, reqs, nodeEnv, question, llmResult, intentResult, intent, pending,
                   toolResult, calls, ext, countFile>>

Next ==
    \/ Receive
    \/ Analyze
    \/ ExecSearch
    \/ ExecGenerate
    \/ ExecCounter
    \/ ExecUnknown
    \/ Respond

Spec == Init /\ [][Next]_vars

\* ----------------------------------------------------------------------
\* POST /api/index-document: processDocument, generateEmbeddings and
\* storeInPinecone.  A document is a sequence of blocks; a block is a run
\* of whitespace or a passage that fills one chunk.
\* ----------------------------------------------------------------------
InvalidDocumentText == <<"Invalid document text provided">>
ZeroChunksText == <<"Document chunking resulted in zero chunks">>
InvalidChunksText == <<"Invalid chunks array provided">>
EmptyVectorsText == <<"Failed to generate valid embeddings - empty vectors returned">>
MismatchText == <<"Mismatch between chunks and vectors length">>
IndexFailedText == <<"Failed to index document. Please try again.">>

WhitespaceBlock == <<" ">>
IsPassage(block) == block # WhitespaceBlock

splitTextMutantKeepWhitespace(text) == text

\* RecursiveCharacterTextSplitter.splitText: the passages in document
\* order; chunks are trimmed and a chunk that trims to nothing is dropped
splitText(text) == SelectSeq(text, IsPassage)

\* the characters of a block: one for whitespace, a chunk's worth for a passage
BlockLength(block) == IF IsPassage(block) THEN ChunkSize ELSE 1

\* documentText.length: the characters of all blocks
RECURSIVE BlocksLength(_, _, _)
BlocksLength(text, lo, hi) ==
    IF lo > hi THEN 0
    ELSE IF lo = hi THEN BlockLength(text[lo])
    ELSE LET mid == (lo + hi) \div 2
         IN  BlocksLength(text, lo, mid) + BlocksLength(text, mid + 1, hi)

TextLength(text) == BlocksLength(text, 1, Len(text))

DocumentTooLongMutantNever(doc) == FALSE

\* documentText.length > 500000
DocumentTooLong(doc) == TextLength(doc.v) > MaxDocumentLen

\* processDocument up to its await: TRUE when it throws before splitting
InvalidDocument(doc) == ~Truthy(doc) \/ doc.ty # "string"

\* processDocument after splitText returned split
processDocumentDone(split) ==
    IF Len(split) = 0 THEN Thr(ZeroChunksText) ELSE Ret(split)

\* generateEmbeddings up to its await: TRUE when it throws before embedding
InvalidChunks(chunkList) == Len(chunkList) = 0

\* generateEmbeddings after embedDocuments completed with emb
generateEmbeddingsDone(emb) ==
    IF emb.kind = "throw" THEN emb
    ELSE IF emb.kind = "novectors" THEN Thr(EmptyVectorsText)
    ELSE IF Len(emb.value) = 0 THEN Thr(EmptyVectorsText)
    ELSE IF Len(emb.value[1]) = 0 THEN Thr(EmptyVectorsText)
    ELSE Ret(emb.value)

LengthMismatchMutantNever(chunkList, vectorList) == FALSE

\* chunks.length !== vectors.length
LengthMismatch(chunkList, vectorList) == Len(chunkList) # Len(vectorList)

\* Math.random().toString(36).substr(2, 9) of the i-th record, for a
\* generator in state seed
RandomSuffix(seed, i) == (seed + i) % NumSuffixes

\* chunks.map((chunk, i) => ({ id, values: vectors[i], metadata }))
BuildRecords(chunkList, vectorList, now, seed) ==
    [i \in 1..Len(chunkList) |->
        [id |-> <<i - 1, now, RandomSuffix(seed, i - 1)>>,
         values |-> IF i \in DOMAIN vectorList THEN Arr(vectorList[i]) ELSE Undef,
         metadata |-> [text |-> chunkList[i], timestamp |-> now]]]

BatchMutantOverlap(recs, i) ==
    SubSeq(recs, i + 1, IF i + BatchSize + 1 < Len(recs) THEN i + BatchSize + 1 ELSE Len(recs))

\* records.slice(i, i + batchSize)
Batch(recs, i) ==
    SubSeq(recs, i + 1, IF i + BatchSize < Len(recs) THEN i + BatchSize ELSE Len(recs))

\* index.upsert(batch): a record replaces the stored record of the same id
Upsert(held, batch) ==
    LET ids == {batch[k].id : k \in DOMAIN batch}
    IN  {r \in held : r.id \notin ids} \cup {batch[k] : k \in DOMAIN batch}

\* await index.upsert(batch): the call with its argument and how it completed
UpsertCall(batch, u) ==
    [call |-> "index.upsert", status |-> St(u), batch |-> batch]

storeInPineconeLoopMutantSwallow(recs, i, u) ==
    IF i + BatchSize < Len(recs) THEN [kind |-> "loop", i |-> i + BatchSize]
    ELSE Ret(Len(recs))

\* the loop of storeInPinecone after the upsert of the batch at i completed
\* with u: the rejection propagates, or the next batch, or records.length
storeInPineconeLoop(recs, i, u) ==
    IF u.kind = "throw" THEN u
    ELSE IF i + BatchSize < Len(recs) THEN [kind |-> "loop", i |-> i + BatchSize]
    ELSE Ret(Len(recs))

\* res.status(200).json({ message, success: true, chunkCount, recordCount })
IndexOk(chunkList, recordCount) ==
    [status |-> 200,
     body |-> [message |-> <<"Document successfully indexed with ">>
                             \o NumToString(Len(chunkList)) \o <<" chunks.">>,
               success |-> TRUE,
               chunkCount |-> Len(chunkList),
               recordCount |-> recordCount]]

\* the catch block of the handler
IndexFailed(msg) ==
    [status |-> 500,
     body |-> WithDetails([error |-> IndexFailedText, success |-> FALSE], msg)]

\* ------------------------------------------------ indexing inputs
\* the document of n passages
Doc(n) == [i \in 1..n |-> NumToString(i)]

\* numbers of passages that make 1, 2, ... MaxBatches batches, full and not
PassageCounts ==
    {1, 2} \cup {k * BatchSize : k \in 1..(MaxBatches - 1)}
           \cup {k * BatchSize + 1 : k \in 1..(MaxBatches - 1)}

\* the shortest document of passages that is over the limit
LongDocument == Doc(MaxDocumentLen \div ChunkSize + 1)

\* req.body.documentText: missing, not a string, empty, whitespace only,
\* passages, passages surrounded by whitespace, a document over the limit
DocumentTexts ==
    {Undef, Num(7), Str(<<>>), Str(<<WhitespaceBlock>>),
     Str(<<WhitespaceBlock, WhitespaceBlock>>),
     Str(<<WhitespaceBlock>> \o Doc(2) \o <<WhitespaceBlock>>)}
    \cup {Str(Doc(n)) : n \in PassageCounts}
    \cup {Str(LongDocument)}

\* the embedding of the i-th chunk, of dimension d
Vec(i, d) == [j \in 1..d |-> i]
GoodVectors(n) == [i \in 1..n |-> Vec(i, VecDim)]

\* completions of embeddings.embedDocuments(chunks) for n chunks: one vector
\* per chunk, no vector, a first or a last vector of length zero, a vector
\* missing or in excess, a last vector of another dimension, no value, a
\* rejection
EmbedDocumentsCompletions(n) ==
    {Ret(GoodVectors(n)),
     Ret(<<>>),
     Ret([GoodVectors(n) EXCEPT ![1] = <<>>]),
     Ret([GoodVectors(n) EXCEPT ![n] = <<>>]),
     Ret(GoodVectors(n - 1)),
     Ret(GoodVectors(n + 1)),
     Ret([GoodVectors(n) EXCEPT ![n] = Vec(n, VecDim + 1)]),
     [kind |-> "novectors"]}
    \cup {Thr(m) : m \in ErrorMessages}

\* completions of index.upsert(batch)
UpsertCompletions == {Ret(Undef)} \cup {Thr(m) : m \in ErrorMessages}

\* readings of Date.now() and states of the random generator
Times == 1..MaxTimes
Seeds == 0..(NumSuffixes - 1)

\* a record stored by an earlier indexing request
OldRecord ==
    [id |-> <<0, 0, 0>>, values |-> Arr(Vec(1, VecDim)),
     metadata |-> [text |-> NumToString(1), timestamp |-> 0]]
InitialStored == {{}, {OldRecord}}

\* ------------------------------------------------ indexing handler
\* the handler responds and the request is over
IxRespond(resp) ==
    /\ ixResponse' = resp
    /\ ixPc' = "done"

\* the request arrives: validation, then processDocument up to splitText
IxReceive ==
    /\ ixPc = "idle"
    /\ \E d \in DocumentTexts :
        /\ documentText' = d
        /\ IF ~Truthy(d)
           THEN IxRespond(BadRequest(<<"Document text is required.">>))
           ELSE IF d.ty # "string"
           THEN IxRespond(BadRequest(<<"Document text must be a string.">>))
           ELSE IF DocumentTooLong(d)
           THEN IxRespond(BadRequest(<<"Document text exceeds maximum length of 500,000 characters.">>))
           ELSE IF InvalidDocument(d)
           THEN IxRespond(IndexFailed(InvalidDocumentText))
           ELSE /\ ixPc' = "splitText"
                /\ ixResponse' = None
    /\ UNCHANGED <<chunks, vectors, records, batchStart, ixExt, stored>>
    /\ UNCHANGED <<queryVars, nodeEnv, countFile, ctr>>

\* splitText returns: processDocument completes, generateEmbeddings runs up
\* to embedDocuments
IxSplit ==
    /\ ixPc = "splitText"
    /\ LET p == processDocumentDone(splitText(documentText.v))
       IN  /\ ixExt' = Append(ixExt, Ext("splitText", "fulfilled"))
           /\ IF p.kind = "throw"
              THEN /\ IxRespond(IndexFailed(p.message))
                   /\ UNCHANGED chunks
              ELSE /\ chunks' = p.value
                   /\ IF InvalidChunks(p.value)
                      THEN IxRespond(IndexFailed(InvalidChunksText))
                      ELSE /\ ixPc' = "embedDocuments"
                           /\ UNCHANGED ixResponse
    /\ UNCHANGED <<documentText, vectors, records, batchStart, stored>>
    /\ UNCHANGED <<queryVars, nodeEnv, countFile, ctr>>

\* embedDocuments completes: generateEmbeddings completes, storeInPinecone
\* runs up to its first upsert
IxEmbedded ==
    /\ ixPc = "embedDocuments"
    /\ \E emb \in EmbedDocumentsCompletions(Len(chunks)), now \in Times, seed \in Seeds :
        LET g == generateEmbeddingsDone(emb)
        IN  /\ ixExt' = Append(ixExt, Ext("embedDocuments", St(emb)))
            /\ IF g.kind = "throw"
               THEN /\ IxRespond(IndexFailed(g.message))
                    /\ UNCHANGED <<vectors, records>>
               ELSE /\ vectors' = g.value
                    /\ IF LengthMismatch(chunks, g.value)
                       THEN /\ IxRespond(IndexFailed(MismatchText))
                            /\ UNCHANGED records
                       ELSE /\ records' = BuildRecords(chunks, g.value, now, seed)
                            /\ IF Len(chunks) = 0
                               THEN IxRespond(IndexOk(chunks, 0))
                               ELSE /\ ixPc' = "upsert"
                                    /\ UNCHANGED ixResponse
    /\ batchStart' = 0
    /\ UNCHANGED <<documentText, chunks, stored>>
    /\ UNCHANGED <<queryVars, nodeEnv, countFile, ctr>>

\* index.upsert(batch) completes: the next batch, or storeInPinecone
\* returns and the handler responds, or the rejection reaches the catch
IxUpserted ==
    /\ ixPc = "upsert"
    /\ \E u \in UpsertCompletions :
        LET step == storeInPineconeLoop(records, batchStart, u)
        IN  /\ ixExt' = Append(ixExt, UpsertCall(Batch(records, batchStart), u))
            /\ stored' = IF u.kind = "throw" THEN stored
                         ELSE Upsert(stored, Batch(records, batchStart))
            /\ IF step.kind = "throw"
               THEN /\ IxRespond(IndexFailed(step.message))
                    /\ UNCHANGED batchStart
               ELSE IF step.kind = "loop"
               THEN /\ batchStart' = step.i
                    /\ UNCHANGED <<ixPc, ixResponse>>
               ELSE /\ IxRespond(IndexOk(chunks, step.value))
                    /\ UNCHANGED batchStart
    /\ UNCHANGED <<documentText, chunks, vectors, records>>
    /\ UNCHANGED <<queryVars, nodeEnv, countFile, ctr>>

InitIndex ==
    /\ InitQuery
    /\ nodeEnv \in NodeEnvs
    /\ countFile = NoFile
    /\ InitIx
    /\ stored \in InitialStored
    /\ InitCtr

NextIndex ==
    \/ IxReceive
    \/ IxSplit
    \/ IxEmbedded
    \/ IxUpserted

SpecIndex == InitIndex /\ [][NextIndex]_vars

\* ----------------------------------------------------------------------
\* The indexing request with a second indexing request running at the same
\* time, seen through what it upserts.
\* ----------------------------------------------------------------------
ConcurrentText == <<"other">>

\* the records the concurrent request built for its document of one chunk
ConcurrentRecords(now, seed) ==
    BuildRecords(<<ConcurrentText>>, <<Vec(1, VecDim)>>, now, seed)

\* the concurrent request upserts its batch while this request is in flight
IxConcurrentUpsert ==
    /\ ixPc \in {"splitText", "embedDocuments", "upsert"}
    /\ \A r \in stored : r.metadata.text # ConcurrentText
    /\ \E now \in Times, seed \in Seeds :
        stored' = Upsert(stored, ConcurrentRecords(now, seed))
    /\ UNCHANGED <<ixPc, documentText, chunks, vectors, records, batchStart, ixExt,
                   ixResponse>>
    /\ UNCHANGED <<queryVars, nodeEnv, countFile, ctr>>

NextIds ==
    \/ IxReceive
    \/ IxSplit
    \/ IxEmbedded
    \/ IxUpserted
    \/ IxConcurrentUpsert

SpecIds == InitIndex /\ [][NextIds]_vars

\* ----------------------------------------------------------------------
\* The server handling one request, of either kind.
\* ----------------------------------------------------------------------
\* a step of a query request, no indexing request having arrived
ServeQuery ==
    /\ ixPc = "idle"
    /\ Next

\* a step of an indexing request, no query request having arrived
ServeIndex ==
    /\ pc = "idle"
    /\ reqs = 0
    /\ NextIndex

NextServer ==
    \/ ServeQuery
    \/ ServeIndex

SpecServer == Init /\ [][NextServer]_vars

\* ----------------------------------------------------------------------
\* queryCounter called by several requests at once: each call is suspended
\* at fs.mkdir, fs.readFile and fs.writeFile, and the calls of other
\* requests run in between.
\* ----------------------------------------------------------------------
\* currentCount after the inner try block read file
ReadCount(file) ==
    LET parsed == IF file.exists THEN ParseInt(file.data) ELSE [nan |-> TRUE]
    IN  IF parsed.nan THEN 0 ELSE parsed.n

\* queryCounter() is called and awaits fs.mkdir
CtrCall ==
    \E p \in Callers :
        /\ ctr[p].pc = "idle"
        /\ ctr' = [ctr EXCEPT ![p] = [pc |-> "mkdir"]]
        /\ UNCHANGED <<queryVars, ixVars, nodeEnv, countFile>>

\* fs.mkdir completes; the call awaits fs.readFile
CtrMkdir ==
    \E p \in Callers, ok \in BOOLEAN :
        /\ ctr[p].pc = "mkdir"
        /\ ctr' = [ctr EXCEPT ![p] =
                      IF ok THEN [pc |-> "readFile"]
                      ELSE [pc |-> "done", res |-> Thr(CounterFailure)]]
        /\ UNCHANGED <<queryVars, ixVars, nodeEnv, countFile>>

\* fs.readFile completes with the file as it is now (ENOENT when there is
\* none) or fails otherwise; currentCount++; the call awaits fs.writeFile
CtrRead ==
    \E p \in Callers, ok \in BOOLEAN :
        /\ ctr[p].pc = "readFile"
        /\ ctr' = [ctr EXCEPT ![p] =
                      IF ok
                      THEN [pc |-> "writeFile", read |-> ReadCount(countFile),
                            currentCount |-> ReadCount(countFile) + 1]
                      ELSE [pc |-> "done", res |-> Thr(CounterFailure)]]
        /\ UNCHANGED <<queryVars, ixVars, nodeEnv, countFile>>

\* fs.writeFile completes: the file holds currentCount and the call returns
\* it, or the write fails
CtrWrite ==
    \E p \in Callers, ok \in BOOLEAN :
        /\ ctr[p].pc = "writeFile"
        /\ IF ok
           THEN /\ countFile' = File(NumToString(ctr[p].currentCount))
                /\ ctr' = [ctr EXCEPT ![p] = [pc |-> "done", read |-> ctr[p].read,
                                              res |-> Ret(ctr[p].currentCount)]]
           ELSE /\ UNCHANGED countFile
                /\ ctr' = [ctr EXCEPT ![p] = [pc |-> "done", read |-> ctr[p].read,
                                              res |-> Thr(CounterFailure)]]
        /\ UNCHANGED <<queryVars, ixVars, nodeEnv>>

\* all calls have finished; the callers' next requests may call again
CtrForget ==
    \E p \in Callers :
        /\ ctr[p].pc = "done"
        /\ \A q \in Callers : ctr[q].pc = "done"
        /\ ReadCount(countFile) < MaxCount
        /\ ctr' = [q \in Callers |-> [pc |-> "idle"]]
        /\ UNCHANGED <<queryVars, ixVars, nodeEnv, countFile>>

InitCounter ==
    /\ InitQuery
    /\ nodeEnv = "production"
    /\ countFile \in InitialCountFiles
    /\ InitIx
    /\ stored = {}
    /\ InitCtr

NextCounter ==
    \/ CtrCall
    \/ CtrMkdir
    \/ CtrRead
    \/ CtrWrite
    \/ CtrForget

SpecCounter == InitCounter /\ [][NextCounter]_vars

\* ----------------------------------------------------------------------
\* One request, query or indexing, whose external calls all complete: a
\* handler that waits for a call eventually resumes.
\* ----------------------------------------------------------------------
\* the steps of the answer-question handler after the request was received
QuerySteps ==
    \/ Analyze
    \/ ExecSearch
    \/ ExecGenerate
    \/ ExecCounter
    \/ ExecUnknown
    \/ Respond

\* the steps of the index-document handler after the request was received
IndexSteps ==
    \/ IxSplit
    \/ IxEmbedded
    \/ IxUpserted

\* a request of either kind arrives at the idle server
Arrive ==
    /\ pc = "idle"
    /\ ixPc = "idle"
    /\ \/ Receive
       \/ IxReceive

NextLive ==
    \/ Arrive
    \/ QuerySteps
    \/ IndexSteps

\* one request, with no assumption on its external calls
SpecRequest == Init /\ [][NextLive]_vars

\* the server starts in development mode with no count file
InitLive ==
    /\ Init
    /\ nodeEnv = "development"
    /\ countFile = NoFile

SpecLive ==
    /\ InitLive
    /\ [][NextLive]_vars
    /\ WF_vars(QuerySteps)
    /\ WF_vars(IndexSteps)

\* ----------------------------------------------------------------------
\* POST /api/search-knowledge-base (server.js:530-622): queryCounter,
\* searchKnowledgeBase, generateAnswer, logQuery.
\* ----------------------------------------------------------------------
\* req.body.question: missing, not a string, or a string
SearchBodies == {Undef, Num(7)} \cup {Str(q) : q \in Questions}

SkbCatchMutantLogThrows(msg, fsOk) ==
    /\ logFile' = logFile
    /\ response' =
          IF fsOk
          THEN [status |-> 500,
                body |-> WithDetails([error |-> <<"Failed to answer the question. Please try again.">>,
                                      success |-> FALSE], msg)]
          ELSE response

\* the catch block of the handler (server.js:608-621)
SkbCatch(msg, fsOk) ==
    /\ logFile' = logQuery(logFile, question.v, <<"Error: ">> \o msg, 0, fsOk)
    /\ response' =
          [status |-> 500,
           body |-> WithDetails([error |-> <<"Failed to answer the question. Please try again.">>,
                                 success |-> FALSE], msg)]

\* the request arrives: validation (server.js:535-554)
SkbReceive ==
    /\ pc = "idle"
    /\ reqs = 0
    /\ reqs' = reqs + 1
    /\ \E d \in SearchBodies :
        /\ question' = d
        /\ IF ~Truthy(d)
           THEN /\ response' = BadRequest(<<"Question is required.">>)
                /\ pc' = "skb.done"
           ELSE IF d.ty # "string"
           THEN /\ response' = BadRequest(<<"Question must be a string.">>)
                /\ pc' = "skb.done"
           ELSE IF Len(d.v) > MaxQuestionLen
           THEN /\ response' = BadRequest(<<"Question exceeds maximum length of 1,000 characters.">>)
                /\ pc' = "skb.done"
           ELSE /\ response' = None
                /\ pc' = "skb.queryCounter"
    /\ UNCHANGED <<llmResult, intentResult, intent, pending, toolResult, finalAnswer, calls,
                   ext, logFile>>
    /\ UNCHANGED <<ixVars, ctr, nodeEnv, countFile>>

\* await queryCounter() (server.js:559)
SkbCounter ==
    /\ pc = "skb.queryCounter"
    /\ \E fsys \in FsOutcomes :
        LET c == queryCounter(countFile, fsys)
        IN  /\ calls' = Append(calls, Call("queryCounter", <<>>, c.res))
            /\ ext' = ext \o c.ext
            /\ countFile' = c.file
            /\ IF c.res.kind = "throw"
               THEN /\ \E fsOk \in BOOLEAN : SkbCatch(c.res.message, fsOk)
                    /\ pc' = "skb.done"
               ELSE /\ pc' = "skb.searchKnowledgeBase"
                    /\ UNCHANGED <<response, logFile>>
    /\ UNCHANGED <<reqs, question, llmResult, intentResult, intent, pending, toolResult,
                   finalAnswer>>
    /\ UNCHANGED <<ixVars, ctr, nodeEnv>>

\* await searchKnowledgeBase(question), the failure return and the
\* no-context return (server.js:562-592)
SkbSearch ==
    /\ pc = "skb.searchKnowledgeBase"
    /\ \E embed \in EmbedCompletions, index \in IndexCompletions :
        LET s == searchKnowledgeBase(question.v, embed, index)
            searchResponse == s.res.value
            relevantChunks == Map(LAMBDA result : result.content, searchResponse.results)
        IN  /\ calls' = Append(calls, Call("searchKnowledgeBase", <<question.v>>, s.res))
            /\ ext' = ext \o s.ext
            /\ IF ~searchResponse.success
               THEN /\ response' =
                          [status |-> 500,
                           body |-> WithDetails(
                               [error |-> <<"Failed to search knowledge base. Please try again.">>,
                                success |-> FALSE], searchResponse.errorDetails)]
                    /\ pc' = "skb.done"
                    /\ UNCHANGED <<pending, logFile>>
               ELSE IF Len(relevantChunks) = 0
               THEN /\ \E fsOk \in BOOLEAN :
                          logFile' = logQuery(logFile, question.v, NoInfoText, 0, fsOk)
                    /\ response' = [status |-> 200,
                                    body |-> [answer |-> Str(NoInfoText), success |-> TRUE,
                                              chunksRetrieved |-> 0]]
                    /\ pc' = "skb.done"
                    /\ UNCHANGED pending
               ELSE /\ pending' = [kind |-> "await", fn |-> "generateAnswer",
                                   context |-> relevantChunks]
                    /\ pc' = "skb.generateAnswer"
                    /\ UNCHANGED <<response, logFile>>
    /\ UNCHANGED <<reqs, question, llmResult, intentResult, intent, toolResult, finalAnswer>>
    /\ UNCHANGED <<ixVars, ctr, nodeEnv, countFile>>

\* await generateAnswer(question, relevantChunks), logQuery and the
\* response (server.js:594-606)
SkbGenerate ==
    /\ pc = "skb.generateAnswer"
    /\ \E llm \in AnswerCompletions, fsOk \in BOOLEAN :
        LET g == generateAnswer(question.v, pending.context, llm)
        IN  /\ calls' = Append(calls, Call("generateAnswer",
                                          <<question.v, pending.context>>, g.res))
            /\ ext' = ext \o g.ext
            /\ IF g.res.kind = "throw"
               THEN SkbCatch(g.res.message, fsOk)
               ELSE /\ logFile' = logQuery(logFile, question.v, ToStr(g.res.value),
                                           Len(pending.context), fsOk)
                    /\ response' = [status |-> 200,
                                    body |-> [answer |-> g.res.value, success |-> TRUE,
                                              chunksRetrieved |-> Len(pending.context)]]
    /\ pc' = "skb.done"
    /\ UNCHANGED <<reqs, question, llmResult, intentResult, intent, pending, toolResult,
                   finalAnswer>>
    /\ UNCHANGED <<ixVars, ctr, nodeEnv, countFile>>

\* a step of a search request, no indexing request having arrived
ServeSearch ==
    /\ ixPc = "idle"
    /\ \/ SkbReceive
       \/ SkbCounter
       \/ SkbSearch
       \/ SkbGenerate

\* the server handling one request to one of its three handlers
NextHandlers ==
    \/ Arrive
    \/ QuerySteps
    \/ IndexSteps
    \/ ServeSearch

SpecHandlers == Init /\ [][NextHandlers]_vars

\* ----------------------------------------------------------------------
\* queryCounter called by requests that arrive independently: a caller
\* whose call has finished may call again while another call is under way.
\* The count file holds a count at the start.
\* ----------------------------------------------------------------------
\* a caller's call has finished and its next request calls queryCounter
CtrAgain ==
    \E p \in Callers :
        /\ ctr[p].pc = "done"
        /\ ReadCount(countFile) < MaxCount
        /\ ctr' = [ctr EXCEPT ![p] = [pc |-> "mkdir"]]
        /\ UNCHANGED <<queryVars, ixVars, nodeEnv, countFile>>

InitRace ==
    /\ InitCounter
    /\ countFile.exists
    /\ ~ParseInt(countFile.data).nan

NextRace ==
    \/ CtrCall
    \/ CtrMkdir
    \/ CtrRead
    \/ CtrWrite
    \/ CtrAgain

SpecRace == InitRace /\ [][NextRace]_vars

\* ----------------------------------------------------------------------
\* TaskAgent driven directly, with substitute collaborators
\* (constructor({ genAI, ragFunctions }), agent.js:23-32), and
\* generateAnswer called directly.
\* ----------------------------------------------------------------------
\* result objects a substitute searchKnowledgeBase may produce
FakeResults ==
    {[content |-> Str(<<"p", "1">>)],
     [content |-> Str(<<"p", "2">>)],
     [content |-> Str(<<>>)],
     [chunkId |-> <<"chunk_0">>],
     [content |-> Num(7)]}

FakeSearchObjects ==
    {[success |-> b, results |-> rs, resultCount |-> Len(rs)] :
        b \in BOOLEAN, rs \in SeqUpTo(FakeResults, 2)}
    \cup {[success |-> TRUE],
          [success |-> TRUE, results |-> <<>>, resultCount |-> 1],
          [success |-> FALSE, message |-> <<"down">>],
          [type |-> <<"custom">>, success |-> TRUE, results |-> <<>>, resultCount |-> 0]}

FakeSearchCompletions ==
    {Ret(o) : o \in FakeSearchObjects} \cup {Ret(Undef)}
    \cup {Thr(m) : m \in ErrorMessages}

FakeGenerateCompletions ==
    {Ret(Str(<<"generated">>)), Ret(Undef)} \cup {Thr(m) : m \in ErrorMessages}

FakeCounterCompletions ==
    {Ret(n) : n \in {0, 1, 12}} \cup {Thr(m) : m \in ErrorMessages}

\* intents executeTools may be called with, the closed enumeration or not
UnitIntents == Intents \cup {<<"other">>, <<>>}

UnitQueries == {<<"w", "h", "o", "?">>, <<>>}

\* a content two characters longer than the preview
LongContent == [i \in 1..(PreviewLen + 2) |-> Digit[(i % 10) + 1]]

\* tool outputs generateResponse may be called with directly
UnitToolOutputs ==
    {[type |-> ANSWER],
     [type |-> ANSWER, answer |-> Str(<<"text">>)],
     [type |-> SEARCH],
     [type |-> SEARCH, success |-> TRUE],
     [type |-> SEARCH, success |-> TRUE, resultCount |-> 1],
     [type |-> SEARCH, success |-> TRUE, resultCount |-> 2, results |-> <<>>],
     [type |-> SEARCH, success |-> TRUE, resultCount |-> 1,
      results |-> <<[content |-> Num(7)]>>],
     [type |-> SEARCH, success |-> TRUE, resultCount |-> 1,
      results |-> <<[content |-> Str(<<"p", "1">>)]>>],
     [type |-> SEARCH, success |-> FALSE, resultCount |-> 0],
     [type |-> SEARCH, success |-> TRUE, resultCount |-> 0, results |-> <<>>],
     [type |-> SEARCH, resultCount |-> 0, results |-> <<>>],
     [type |-> SEARCH, success |-> TRUE, resultCount |-> 1,
      results |-> <<[chunkId |-> <<"chunk_0">>]>>],
     [type |-> SEARCH, success |-> TRUE, resultCount |-> 1,
      results |-> <<[content |-> Str(<<>>)]>>],
     [type |-> SEARCH, success |-> TRUE, resultCount |-> 12,
      results |-> <<[content |-> Str(LongContent)]>>],
     [type |-> SEARCH, success |-> TRUE, resultCount |-> 1,
      results |-> <<[content |-> Str(SubSeq(LongContent, 1, PreviewLen))]>>],
     [type |-> QUERY_COUNT],
     [type |-> QUERY_COUNT, count |-> 12],
     [type |-> ERROR],
     [type |-> ERROR, message |-> <<"failed">>],
     [type |-> <<"custom">>],
     [success |-> TRUE]}

\* contexts generateAnswer may be called with directly
UnitContexts == SeqUpTo({Str(<<"p", "1">>), Str(<<"p", "2">>)}, 2)

\* positions at which no direct call is in progress
UnitIdle == {"idle", "done", "generateAnswer.done", "generateResponse.done"}

\* a match whose metadata text is the empty string
EmptyTextMatch == [metadata |-> [text |-> Str(<<>>)]]

\* what the store holds when searchKnowledgeBase is called directly: as
\* above, or with a match of empty text at some rank
SearchIndexCompletions ==
    IndexCompletions
    \cup {Ret(Ranked([m EXCEPT ![k] = EmptyTextMatch], sp)) :
            m \in SeqUpTo(Matches, TopK) \ {<<>>}, k \in 1..TopK, sp \in ScoreProfiles}

\* queries searchKnowledgeBase may be called with directly
UnitSearchQueries == {<<>>, <<" ">>, <<" ", " ">>, <<"w", "h", "o", "?">>}

\* a call of executeTools(intent, query)
UnitCall ==
    /\ pc \in UnitIdle
    /\ \E i \in UnitIntents, q \in UnitQueries :
        /\ intent' = i
        /\ question' = q
    /\ pc' = "exec"
    /\ pending' = None
    /\ toolResult' = None
    /\ finalAnswer' = None
    /\ calls' = <<>>
    /\ ext' = <<>>
    /\ UNCHANGED <<ixVars, ctr, reqs, nodeEnv, llmResult, intentResult, response, countFile, logFile>>

\* the substitute searchKnowledgeBase or queryCounter completes
UnitFirst ==
    /\ pc = "exec"
    /\ FirstCall(intent) # "none"
    /\ \E c \in IF FirstCall(intent) = "searchKnowledgeBase"
                THEN FakeSearchCompletions ELSE FakeCounterCompletions :
        /\ calls' = Append(calls, Call(FirstCall(intent),
                                       IF FirstCall(intent) = "searchKnowledgeBase"
                                       THEN <<question>> ELSE <<>>, c))
        /\ Resume(executeToolsOnFirst(intent, c))
    /\ UNCHANGED <<ixVars, ctr, reqs, nodeEnv, question, llmResult, intentResult, intent,
                   finalAnswer, ext, response, countFile, logFile>>

\* the substitute generateAnswer completes
UnitGenerate ==
    /\ pc = "generate"
    /\ \E g \in FakeGenerateCompletions :
        /\ calls' = Append(calls, Call("generateAnswer", <<question, pending.context>>, g))
        /\ Resume(executeToolsOnGenerate(pending.context, pending.searchResults, g))
    /\ UNCHANGED <<ixVars, ctr, reqs, nodeEnv, question, llmResult, intentResult, intent,
                   finalAnswer, ext, response, countFile, logFile>>

\* executeTools with an intent that has no collaborator
UnitUnknown ==
    /\ pc = "exec"
    /\ FirstCall(intent) = "none"
    /\ Resume(executeToolsCatch(UnknownBranch))
    /\ UNCHANGED <<ixVars, ctr, reqs, nodeEnv, question, llmResult, intentResult, intent,
                   finalAnswer, calls, ext, response, countFile, logFile>>

\* generateResponse(intent, toolOutput) on the output executeTools returned
UnitRespond ==
    /\ pc = "respond"
    /\ toolResult.kind = "return"
    /\ finalAnswer' = generateResponse(intent, toolResult.value)
    /\ pc' = "done"
    /\ UNCHANGED <<ixVars, ctr, reqs, nodeEnv, question, llmResult, intentResult, intent, pending,
                   toolResult, calls, ext, response, countFile, logFile>>

\* generateResponse(intent, toolOutput) on any tool output
UnitCompose ==
    /\ pc \in UnitIdle
    /\ \E i \in UnitIntents, out \in UnitToolOutputs :
        /\ intent' = i
        /\ toolResult' = Ret(out)
        /\ finalAnswer' = generateResponse(i, out)
    /\ pc' = "generateResponse.done"
    /\ question' = <<>>
    /\ pending' = None
    /\ calls' = <<>>
    /\ ext' = <<>>
    /\ UNCHANGED <<ixVars, ctr, reqs, nodeEnv, llmResult, intentResult, response, countFile, logFile>>

\* generateAnswer(question, context) called directly
UnitGenerateAnswer ==
    /\ pc \in UnitIdle
    /\ \E q \in UnitQueries, context \in UnitContexts, llm \in AnswerCompletions :
        LET g == generateAnswer(q, context, llm)
        IN  /\ question' = q
            /\ calls' = <<Call("generateAnswer", <<q, context>>, g.res)>>
            /\ ext' = g.ext
    /\ pc' = "generateAnswer.done"
    /\ intent' = <<>>
    /\ pending' = None
    /\ toolResult' = None
    /\ finalAnswer' = None
    /\ UNCHANGED <<ixVars, ctr, reqs, nodeEnv, llmResult, intentResult, response, countFile, logFile>>

\* searchKnowledgeBase(query) called directly
UnitSearch ==
    /\ pc = "idle"
    /\ \E q \in UnitSearchQueries, embed \in EmbedCompletions, idx \in SearchIndexCompletions :
        LET s == searchKnowledgeBase(q, embed, idx)
        IN  /\ question' = q
            /\ calls' = <<Call("searchKnowledgeBase", <<q>>, s.res)>>
                         \o (IF Trim(q) # <<>> /\ embed.kind = "return"
                             THEN <<Call("index.query", <<TopK>>, IndexResponse(idx))>>
                             ELSE <<>>)
            /\ ext' = s.ext
    /\ pc' = "searchKnowledgeBase.done"
    /\ intent' = <<>>
    /\ pending' = None
    /\ toolResult' = None
    /\ finalAnswer' = None
    /\ UNCHANGED <<ixVars, ctr, reqs, nodeEnv, llmResult, intentResult, response,
                   countFile, logFile>>

NextUnit ==
    \/ UnitCall
    \/ UnitFirst
    \/ UnitGenerate
    \/ UnitUnknown
    \/ UnitRespond
    \/ UnitCompose
    \/ UnitGenerateAnswer

SpecUnit == Init /\ [][NextUnit]_vars

\* searchKnowledgeBase called directly, with the real queryDocument
InitSearch ==
    /\ InitQuery
    /\ nodeEnv = "production"
    /\ countFile = NoFile
    /\ InitIx
    /\ stored = {}
    /\ InitCtr

NextSearch == UnitSearch

SpecSearch == InitSearch /\ [][NextSearch]_vars

\* ======================================================================
\* Properties
\* ======================================================================
\* executeTools has been entered for the current request or call
Dispatched == pc \in {"exec", "generate", "respond"} \/ toolResult # None

\* executeTools has completed
Completed == toolResult # None

\* the first collaborator call was searchKnowledgeBase and it returned an object
SearchReturned ==
    /\ calls # <<>>
    /\ calls[1].fn = "searchKnowledgeBase"
    /\ calls[1].res.kind = "return"
    /\ ~IsUndef(calls[1].res.value)

\* C1: analyzeIntent returns an intent of the closed enumeration for every
\* completion of the model call, and the intent the handler passes to
\* executeTools is in the enumeration.
C1_IntentInEnumeration ==
    /\ (intentResult # None /\ intentResult.kind = "return"
            => intentResult.value.intent \in Intents)
    /\ (Dispatched => intent \in Intents)

\* C1 witness: the model answered something that is no label, and the
\* handler is about to dispatch "unknown".
C1_Witness ==
    /\ pc = "exec"
    /\ llmResult.kind = "text"
    /\ Trim(llmResult.text) \notin Intents
    /\ intent = UNKNOWN

\* C2: executeTools never throws; when a collaborator call rejected, the
\* output is the error variant and carries the collaborator's message.
C2_ExecuteToolsNeverThrows ==
    Completed =>
        /\ toolResult.kind = "return"
        /\ \A i \in DOMAIN calls :
              calls[i].res.kind = "throw" =>
                  /\ toolResult.value.type = ERROR
                  /\ Has(toolResult.value, "message")
                  /\ toolResult.value.message = ErrorPrefix \o calls[i].res.message

\* C2 witness: generateAnswer rejected and executeTools has returned.
C2_Witness ==
    /\ pc = "respond"
    /\ Len(calls) = 2
    /\ calls[2].fn = "generateAnswer"
    /\ calls[2].res.kind = "throw"

\* retrieval yielded zero results during an answer_question dispatch
ZeroHits ==
    /\ intent = ANSWER_QUESTION
    /\ SearchReturned
    /\ Has(calls[1].res.value, "results")
    /\ calls[1].res.value.results = <<>>

\* C3: an answer_question dispatch whose retrieval yields zero results never
\* calls generateAnswer and returns answer{no-relevant-information text,
\* chunksRetrieved = 0}.
C3_ZeroHitsSkipGeneration ==
    ZeroHits =>
        /\ pc # "generate"
        /\ Len(calls) = 1
        /\ toolResult.kind = "return"
        /\ toolResult.value.type = ANSWER
        /\ toolResult.value.answer = Str(NoInfoText)
        /\ toolResult.value.chunksRetrieved = 0

\* C3 witness: retrieval reported success with an empty result list.
C3_Witness ==
    /\ ZeroHits
    /\ pc = "respond"
    /\ Has(calls[1].res.value, "success")
    /\ calls[1].res.value.success

\* generateAnswer was called directly with an empty context
EmptyContextCall ==
    /\ pc = "generateAnswer.done"
    /\ calls[1].args[2] = <<>>

\* C4: generateAnswer with an empty context fails with the no-context error,
\* sends no prompt to the language model and returns no answer.
C4_NoContextError ==
    EmptyContextCall =>
        /\ calls[1].res = Thr(NoContextMessage)
        /\ ext = <<>>

\* C4 witness: the direct call with an empty context has completed.
C4_Witness == EmptyContextCall /\ calls[1].res.kind = "throw"

\* C5: generateResponse never throws and always returns text.
C5_ComposeNeverThrows ==
    finalAnswer # None =>
        /\ finalAnswer.kind = "return"
        /\ finalAnswer.value.ty = "string"

\* an external call of the query pipeline failed: query embedding, index
\* query, answer generation or counter update
PipelineFailure(e) ==
    /\ e.status = "rejected"
    /\ e.call = "generateContent" => e.by = "generateAnswer"

\* C6: when an external call fails while a query is processed, the response
\* has success = false; a failed query is never reported with success = true.
C6_FailureNeverReportedAsSuccess ==
    (/\ pc = "done"
     /\ response # None
     /\ \E i \in DOMAIN ext : PipelineFailure(ext[i]))
        => response.body.success = FALSE

\* C7: when the model call inside analyzeIntent throws, analyzeIntent
\* returns intent unknown with the error's message and does not throw.
C7_ClassifierFailureCollapses ==
    llmResult.kind = "throw" =>
        intentResult = Ret([intent |-> UNKNOWN, error |-> llmResult.message])

\* C7 witness: the model call threw and the handler has answered.
C7_Witness ==
    /\ llmResult.kind = "throw"
    /\ llmResult.message # <<>>
    /\ pc = "done"

\* C8 as claimed: the raw response is the intent only if it equals a known
\* label exactly, and every other response yields unknown.
C8_ExactMatchOnly ==
    (llmResult.kind = "text" /\ pc = "exec") =>
        intent = IF llmResult.text \in knownIntents THEN llmResult.text ELSE UNKNOWN

\* the raw response r is the label l with only whitespace around it
PaddedLabel(r, l) ==
    \E i \in 1..Len(r) :
        /\ <<r[i]>> = l
        /\ \A j \in (1..Len(r)) \ {i} : IsSpace(r[j])

\* C8 amended: analyzeIntent returns an actionable label exactly when the
\* raw response is that label with nothing but whitespace before and after
\* it; every other response yields unknown.
C8_TrimmedMatchOnly ==
    (llmResult.kind = "text" /\ pc = "exec") =>
        /\ \A l \in knownIntents : intent = l <=> PaddedLabel(llmResult.text, l)
        /\ intent = UNKNOWN <=> \A l \in knownIntents : ~PaddedLabel(llmResult.text, l)

\* C8 witness: a multi-token response that contains a label collapsed to
\* unknown.
C8_Witness ==
    /\ pc = "exec"
    /\ llmResult.kind = "text"
    /\ Len(llmResult.text) = 2
    /\ <<llmResult.text[1]>> \in knownIntents
    /\ ~IsSpace(llmResult.text[2])
    /\ intent = UNKNOWN

\* retrieval succeeded with at least one result during an answer_question
\* dispatch
Hits ==
    /\ intent = ANSWER_QUESTION
    /\ SearchReturned
    /\ Has(calls[1].res.value, "success")
    /\ calls[1].res.value.success
    /\ Has(calls[1].res.value, "results")
    /\ Len(calls[1].res.value.results) >= 1

\* C9: an answer_question dispatch whose retrieval succeeds with n >= 1
\* results calls searchKnowledgeBase once, then generateAnswer once with the
\* query and the results' content in retrieval order; when generation
\* returns, the output is answer{generated text, chunksRetrieved = n}.
C9_RetrieveThenGenerate ==
    Hits =>
        LET results == calls[1].res.value.results
            n == Len(results)
        IN  /\ calls[1].args = <<question>>
            /\ pc = "generate" => Len(calls) = 1
            /\ pc # "generate" =>
                  /\ Len(calls) = 2
                  /\ calls[2].fn = "generateAnswer"
                  /\ calls[2].args[1] = question
                  /\ Len(calls[2].args[2]) = n
                  /\ \A i \in 1..n : calls[2].args[2][i] = Get(results[i], "content")
                  /\ calls[2].res.kind = "return" =>
                        /\ toolResult.kind = "return"
                        /\ toolResult.value.type = ANSWER
                        /\ toolResult.value.answer = calls[2].res.value
                        /\ toolResult.value.chunksRetrieved = n

\* C9 witness: two results with different content were retrieved and the
\* answer was generated.
C9_Witness ==
    /\ Hits
    /\ pc = "respond"
    /\ Len(calls) = 2
    /\ calls[2].res.kind = "return"
    /\ Len(calls[1].res.value.results) = 2
    /\ calls[1].res.value.results[1] # calls[1].res.value.results[2]

\* C10: a search_knowledge_base dispatch calls searchKnowledgeBase once and
\* neither generateAnswer nor queryCounter; the output is the search variant
\* with the retriever's results unchanged and resultCount their number.
C10_SearchOnly ==
    (intent = SEARCH_KNOWLEDGE_BASE /\ pc # "exec") =>
        /\ pc # "generate"
        /\ Len(calls) = 1
        /\ calls[1].fn = "searchKnowledgeBase"
        /\ \A i \in DOMAIN ext :
              ext[i].call \in {"generateContent", "embedQuery", "index.query"}
              /\ (ext[i].call = "generateContent" => ext[i].by = "analyzeIntent")
        /\ toolResult.kind = "return"
        /\ toolResult.value.type = SEARCH
        /\ toolResult.value.results = calls[1].res.value.results
        /\ toolResult.value.resultCount = Len(calls[1].res.value.results)

\* C10 witness: a search dispatch returned two results.
C10_Witness ==
    /\ intent = SEARCH_KNOWLEDGE_BASE
    /\ pc = "respond"
    /\ Len(toolResult.value.results) = 2

\* executeTools has been dispatched and its first collaborator step is over
PastFirst == pc \in {"generate", "respond", "done"}

\* C11: a get_query_count dispatch calls queryCounter exactly once and
\* neither searchKnowledgeBase nor generateAnswer; when the counter returns,
\* the output is query_count whose count is the value the counter returned.
C11_CountOnly ==
    (intent = GET_QUERY_COUNT /\ PastFirst) =>
        /\ pc # "generate"
        /\ Len(calls) = 1
        /\ calls[1].fn = "queryCounter"
        /\ calls[1].res.kind = "return" =>
              toolResult = Ret([type |-> QUERY_COUNT, count |-> calls[1].res.value])

\* C11 witness: the counter returned 12 and the dispatch completed.
C11_Witness ==
    /\ intent = GET_QUERY_COUNT
    /\ pc = "respond"
    /\ calls = <<Call("queryCounter", <<>>, Ret(12))>>

\* C12: a dispatch of unknown, or of any value outside the three actionable
\* intents, calls no collaborator and returns the error variant with the
\* unrecognised-request message.
C12_UnknownCallsNothing ==
    (intent \notin knownIntents /\ PastFirst) =>
        /\ pc # "generate"
        /\ calls = <<>>
        /\ ext = <<>>
        /\ toolResult = Ret([type |-> ERROR, message |-> UnknownRequestText])

\* C12 witness: an intent outside the enumeration was dispatched.
C12_Witness ==
    /\ intent = <<"other">>
    /\ pc = "respond"
    /\ toolResult # None

\* the embedding call or the index query of the retrieval was rejected
RetrievalFailed ==
    \E i \in DOMAIN ext :
        /\ ext[i].call \in {"embedQuery", "index.query"}
        /\ ext[i].status = "rejected"

\* C13: when embedding the query or querying the index fails during an
\* answer_question dispatch, the dispatch output is the error variant.
C13_RetrievalFailurePropagates ==
    (intent = ANSWER_QUESTION /\ Completed /\ RetrievalFailed) =>
        /\ toolResult.kind = "return"
        /\ toolResult.value.type = ERROR

\* C14: searchKnowledgeBase called with an empty or whitespace-only query
\* raises to its caller and makes no embedding call and no index query.
C14_InvalidQueryRaised ==
    (pc = "searchKnowledgeBase.done" /\ Trim(question) = <<>>) =>
        /\ calls[1].res.kind = "throw"
        /\ ext = <<>>

\* C20: the results searchKnowledgeBase returns are in order of
\* non-increasing relevanceScore.
C20_ResultsSortedByScore ==
    (SearchReturned /\ Has(calls[1].res.value, "results")) =>
        LET results == calls[1].res.value.results
        IN  \A i, j \in DOMAIN results :
                i < j =>
                    /\ Has(results[i], "relevanceScore")
                    /\ Has(results[j], "relevanceScore")
                    /\ results[i].relevanceScore >= results[j].relevanceScore

\* C20 witness: the index returned three matches and the results carry
\* three different scores.
C20_Witness ==
    /\ SearchReturned
    /\ Has(calls[1].res.value, "results")
    /\ Len(calls[1].res.value.results) = 3
    /\ calls[1].res.value.results[1].relevanceScore
          > calls[1].res.value.results[3].relevanceScore

\* ------------------------------------------------ indexing properties
\* the indexing request was answered with success
IndexSucceeded ==
    /\ ixPc = "done"
    /\ ixResponse.status = 200

\* the indexing request was answered with a failure
IndexReportedFailed ==
    /\ ixPc = "done"
    /\ ixResponse.status # 200
    /\ ixResponse.body.success = FALSE

\* the indexing request has made no call of the given external function
NoCall(fn) == \A k \in DOMAIN ixExt : ixExt[k].call # fn

\* generateEmbeddings returned a number of vectors other than the number of chunks
VectorCountDiffers == vectors # <<>> /\ Len(vectors) # Len(chunks)

\* C15: a successful indexing has record i built from chunk i and vector i,
\* all of them stored, and recordCount = chunkCount = number of vectors; when
\* the number of vectors differs from the number of chunks the request fails
\* with no upsert call, and no step of a request that has made no upsert
\* call changes the index.
C15_OneToOneOrFailBeforeUpsert ==
    /\ [](IndexSucceeded =>
            /\ Len(records) = Len(chunks)
            /\ Len(vectors) = Len(chunks)
            /\ ixResponse.body.chunkCount = Len(chunks)
            /\ ixResponse.body.recordCount = Len(chunks)
            /\ \A i \in DOMAIN records :
                  /\ records[i].metadata.text = chunks[i]
                  /\ records[i].values = Arr(vectors[i])
                  /\ records[i] \in stored)
    /\ [](VectorCountDiffers =>
            /\ NoCall("index.upsert")
            /\ records = <<>>
            /\ IndexReportedFailed)
    /\ [][NoCall("index.upsert")' => stored' = stored]_vars

\* C15 witness: one vector too many came back for two chunks, the request
\* failed and the index still holds exactly the record it held before.
C15_Witness ==
    /\ Len(chunks) = 2
    /\ Len(vectors) = 3
    /\ ixPc = "done"
    /\ stored = {OldRecord}

\* an upsert of the indexing request was rejected
UpsertRejected ==
    \E k \in DOMAIN ixExt :
        ixExt[k].call = "index.upsert" /\ ixExt[k].status = "rejected"

\* number of upserts of the indexing request that succeeded
UpsertsFulfilled ==
    Cardinality({k \in DOMAIN ixExt :
                    ixExt[k].call = "index.upsert" /\ ixExt[k].status = "fulfilled"})

\* C16: when the upsert of a batch is rejected, the records of the batches
\* before it are in the index, the rejected upsert is the last external call
\* of the request, and the request is reported as failed.
C16_PartialIndexReported ==
    UpsertRejected =>
        /\ ixExt[Len(ixExt)].call = "index.upsert"
        /\ ixExt[Len(ixExt)].status = "rejected"
        /\ \A k \in 1..(Len(ixExt) - 1) : ixExt[k].status # "rejected"
        /\ \A i \in DOMAIN records :
              i <= UpsertsFulfilled * BatchSize => records[i] \in stored
        /\ IndexReportedFailed

\* C16 witness: the third batch was rejected after two batches were stored.
C16_Witness ==
    /\ UpsertRejected
    /\ UpsertsFulfilled = 2
    /\ Len(records) > 2 * BatchSize
    /\ records[2 * BatchSize] \in stored

\* the document of the indexing request is a string with no passage
BlankDocument ==
    /\ ixPc # "idle"
    /\ documentText.ty = "string"
    /\ \A k \in DOMAIN documentText.v : documentText.v[k] = WhitespaceBlock

\* C17: indexing an empty or whitespace-only document makes no embedding
\* call and no upsert and is answered with a failure; a request answered
\* with success reports chunkCount >= 1.
C17_BlankDocumentFails ==
    /\ BlankDocument =>
          /\ NoCall("embedDocuments")
          /\ NoCall("index.upsert")
          /\ ixPc \in {"splitText", "done"}
          /\ ixPc = "done" => IndexReportedFailed
    /\ IndexSucceeded => ixResponse.body.chunkCount >= 1

\* C17 witness: a whitespace-only document was split and the request failed.
C17_Witness ==
    /\ BlankDocument
    /\ documentText.v # <<>>
    /\ ixExt = <<Ext("splitText", "fulfilled")>>
    /\ IndexReportedFailed

\* C18: when generateEmbeddings returned, every vector has a nonzero length
\* and all vectors have the same dimension; no stored record has an empty
\* vector.
C18_VectorsValidated ==
    /\ \A i \in DOMAIN vectors :
          /\ Len(vectors[i]) > 0
          /\ Len(vectors[i]) = Len(vectors[1])
    /\ \A r \in stored : r.values.ty = "array" /\ Len(r.values.v) > 0

\* ------------------------------------------------ counter properties
\* every caller's queryCounter call has returned a count
AllReturned ==
    \A p \in Callers : ctr[p].pc = "done" /\ ctr[p].res.kind = "return"

\* the least count a caller read: the count before the calls
CountBefore ==
    CHOOSE n \in {ctr[p].read : p \in Callers} :
        \A p \in Callers : n <= ctr[p].read

\* C19: after concurrent queryCounter calls that all returned, the persisted
\* count is the count before the calls plus their number and the counts
\* returned are pairwise distinct.
C19_IncrementAndReturn ==
    AllReturned =>
        /\ countFile = File(NumToString(CountBefore + MaxCallers))
        /\ \A p, q \in Callers : p # q => ctr[p].res.value # ctr[q].res.value

\* ------------------------------------------------ retrieval properties
\* searchKnowledgeBase was called directly and the index answered its query
IndexAnswered ==
    /\ pc = "searchKnowledgeBase.done"
    /\ Len(calls) = 2
    /\ calls[2].fn = "index.query"
    /\ calls[2].res.kind = "return"

\* C21: the relevanceScore of each result is the score the store returned
\* for the match the result was made from.
C21_ScoreIsStoreScore ==
    IndexAnswered =>
        LET kept == SelectSeq(calls[2].res.value, HasTextMetadata)
            results == calls[1].res.value.results
        IN  /\ Len(results) = Len(kept)
            /\ \A i \in DOMAIN results : results[i].relevanceScore = kept[i].score

\* C22: a retrieval returns at most topK results, resultCount is the length
\* of results, and when the index has no match the retrieval reports
\* success with no result.
C22_AtMostTopK ==
    pc = "searchKnowledgeBase.done" =>
        LET r == calls[1].res
        IN  /\ r.kind = "return"
            /\ Len(r.value.results) <= TopK
            /\ r.value.resultCount = Len(r.value.results)
            /\ (IndexAnswered /\ calls[2].res.value = <<>>) =>
                  /\ r.value.success
                  /\ r.value.results = <<>>

\* C22 witness: the store held one match more than topK, all with text, and
\* the retrieval returned topK results.
C22_Witness ==
    /\ IndexAnswered
    /\ Len(calls[1].res.value.results) = TopK
    /\ calls[1].res.value.resultCount = TopK

\* ------------------------------------------------ record id properties
\* C23: the records of one request have pairwise distinct ids, and no
\* upsert stores a record under the id of a record the index already holds.
C23_IdsUnique ==
    /\ [](\A i, j \in DOMAIN records : i # j => records[i].id # records[j].id)
    /\ [][\A r \in stored' \ stored : \A o \in stored : o.id # r.id]_vars

\* ------------------------------------------------ counting and logging
\* the request passed validation and its response has been sent
AcceptedAndAnswered ==
    /\ pc = "done"
    /\ response # None
    /\ response.status # 400

\* number of completed writes of the count file made for the request
CountWrites ==
    Cardinality({i \in DOMAIN ext :
                    ext[i].call = "writeFile" /\ ext[i].status = "fulfilled"})

\* C24: a query accepted by the answer-question endpoint has, when it is
\* answered, written the count file exactly once, whatever its intent.
C24_EveryQueryCounted ==
    AcceptedAndAnswered =>
        /\ CountWrites = 1
        /\ countFile.exists

\* C25: a query that passed validation has exactly one log entry, with its
\* text, when its response is sent.
C25_EveryQueryLogged ==
    AcceptedAndAnswered =>
        /\ Len(logFile) = reqs
        /\ logFile[Len(logFile)].query = question

\* ------------------------------------------------ response properties
\* part occurs in text
Contains(text, part) ==
    \E i \in 1..(Len(text) - Len(part) + 1) : SubSeq(text, i, i + Len(part) - 1) = part

\* generateResponse has been applied to a successful search output that
\* reports at least one result
ComposedSearchWithResults ==
    /\ finalAnswer # None
    /\ toolResult # None
    /\ toolResult.kind = "return"
    /\ ~IsUndef(toolResult.value)
    /\ Has(toolResult.value, "type")
    /\ toolResult.value.type = SEARCH
    /\ Has(toolResult.value, "success")
    /\ toolResult.value.success
    /\ Has(toolResult.value, "resultCount")
    /\ toolResult.value.resultCount > 0

\* the top result of the search output has a non-empty string content
TopContentIsText ==
    /\ Has(toolResult.value, "results")
    /\ Len(toolResult.value.results) > 0
    /\ Has(toolResult.value.results[1], "content")
    /\ toolResult.value.results[1].content.ty = "string"
    /\ toolResult.value.results[1].content.v # <<>>

\* C26: for a search output with results whose top content is a non-empty
\* string, the text returned contains the result count and the first 150
\* characters of the content (all of it when it is shorter), and not the
\* first 151.
C26_CountAndPreview ==
    (ComposedSearchWithResults /\ TopContentIsText) =>
        LET content == toolResult.value.results[1].content.v
        IN  /\ finalAnswer.kind = "return"
            /\ finalAnswer.value.ty = "string"
            /\ Contains(finalAnswer.value.v, NumToString(toolResult.value.resultCount))
            /\ Contains(finalAnswer.value.v, Substring0(content, PreviewLen))
            /\ Len(content) > PreviewLen =>
                  ~Contains(finalAnswer.value.v, SubSeq(content, 1, PreviewLen + 1))

\* C26 witness: the top content is longer than the preview.
C26_Witness ==
    /\ ComposedSearchWithResults
    /\ TopContentIsText
    /\ Len(toolResult.value.results[1].content.v) > PreviewLen
    /\ finalAnswer.kind = "return"

\* C27: for a successful search output with resultCount > 0 whose results
\* or first result is missing, or whose first result has a missing or empty
\* content, generateResponse returns the count-only message.
C27_CountOnlyWhenContentMissing ==
    (ComposedSearchWithResults
     /\ (\/ ~Has(toolResult.value, "results")
         \/ Len(toolResult.value.results) = 0
         \/ ~Has(toolResult.value.results[1], "content")
         \/ toolResult.value.results[1].content = Str(<<>>))) =>
        finalAnswer = Ret(Str(CountOnlyText(toolResult.value.resultCount)))

\* C27 witness: the first result has no content field.
C27_Witness ==
    /\ ComposedSearchWithResults
    /\ Has(toolResult.value, "results")
    /\ Len(toolResult.value.results) = 1
    /\ ~Has(toolResult.value.results[1], "content")
    /\ finalAnswer.kind = "return"

\* C28: for a search output with zero results, generateResponse returns
\* the fixed no-results message.
C28_NoResultsMessage ==
    (/\ finalAnswer # None
     /\ toolResult # None
     /\ toolResult.kind = "return"
     /\ Has(toolResult.value, "type")
     /\ toolResult.value.type = SEARCH
     /\ Has(toolResult.value, "resultCount")
     /\ toolResult.value.resultCount = 0) =>
        finalAnswer = Ret(Str(NoResultsText))

\* ------------------------------------------------ prompt properties
\* generateAnswer was called directly and sent a prompt to the model
PromptSent ==
    /\ pc = "generateAnswer.done"
    /\ Len(ext) = 1
    /\ ext[1].call = "generateContent"

\* the positions of the prompt at which label [i] followed by passage i begins
LabelPositions(prompt, context, i) ==
    LET labelled == <<"[">> \o NumToString(i) \o <<"] ">> \o ToStr(context[i])
    IN  {k \in 1..(Len(prompt) - Len(labelled) + 1) :
            SubSeq(prompt, k, k + Len(labelled) - 1) = labelled}

\* C29: the prompt generateAnswer sends for n >= 1 passages has, for each i,
\* label [i] followed by passage i exactly once, the labels in ascending
\* order and no other label, and contains the question and the instruction
\* to answer only from the provided context.
C29_PromptEnumeratesContext ==
    PromptSent =>
        LET prompt == ext[1].prompt
            context == calls[1].args[2]
            n == Len(context)
        IN  /\ n >= 1
            /\ \A i \in 1..n : Cardinality(LabelPositions(prompt, context, i)) = 1
            /\ \A i, j \in 1..n :
                  i < j => \A a \in LabelPositions(prompt, context, i),
                              b \in LabelPositions(prompt, context, j) : a < b
            /\ Cardinality({k \in 1..Len(prompt) : prompt[k] = "["}) = n
            /\ Contains(prompt, <<"Question: ">> \o calls[1].args[1])
            /\ Contains(prompt, <<"Answer the question using ONLY the provided context.">>)

\* C29 witness: a prompt was sent for two different passages.
C29_Witness ==
    /\ PromptSent
    /\ Len(calls[1].args[2]) = 2
    /\ calls[1].args[2][1] # calls[1].args[2][2]
    /\ calls[1].args[1] # <<>>

\* ------------------------------------------------ input bounds
\* the question of the query request is over the limit
QuestionOverLimit == Len(question) > MaxQuestionLen

\* the document of the indexing request is a string over the limit
DocumentOverLimit ==
    /\ ixPc # "idle"
    /\ documentText.ty = "string"
    /\ TextLength(documentText.v) > MaxDocumentLen

\* C30: a question over 1,000 characters is rejected with success = false
\* with no classification, retrieval, generation, counter update or log
\* entry; a document over 500,000 characters is rejected with success =
\* false with no chunking, embedding or upsert.
C30_OutOfBoundsRejected ==
    /\ [](QuestionOverLimit =>
            /\ pc = "done"
            /\ response.status = 400
            /\ response.body.success = FALSE
            /\ intentResult = None
            /\ calls = <<>>
            /\ ext = <<>>)
    /\ [][QuestionOverLimit' => UNCHANGED <<countFile, logFile>>]_vars
    /\ [](DocumentOverLimit =>
            /\ ixPc = "done"
            /\ ixResponse.status = 400
            /\ ixResponse.body.success = FALSE
            /\ ixExt = <<>>
            /\ chunks = <<>>
            /\ vectors = <<>>
            /\ records = <<>>)
    /\ [][DocumentOverLimit' => stored' = stored]_vars

\* C30 witness: a question over the limit has been rejected.
C30_Witness ==
    /\ QuestionOverLimit
    /\ pc = "done"
    /\ response.status = 400

\* ------------------------------------------------ failure reports
\* the indexing request got past validation and a stage of it threw: it is
\* over and its last external call is not an upsert that was fulfilled
IndexingThrew ==
    /\ ixPc = "done"
    /\ ixExt # <<>>
    /\ \/ ixExt[Len(ixExt)].call # "index.upsert"
       \/ ixExt[Len(ixExt)].status = "rejected"

\* the failure report of the catch block, without the detail
GenericFailure ==
    /\ ixResponse # None
    /\ ixResponse.status = 500
    /\ ixResponse.body.error = IndexFailedText
    /\ ixResponse.body.success = FALSE

\* C31 as claimed: when indexing fails the response carries the generic
\* failure message with success = false, and carries the underlying error
\* detail if and only if the server is not running in production mode.
C31_DetailUnlessProduction ==
    IndexingThrew =>
        /\ GenericFailure
        /\ Has(ixResponse.body, "details") <=> nodeEnv # "production"

\* C31 amended: when indexing fails the response carries the generic failure
\* message with success = false, and carries the underlying error detail if
\* and only if NODE_ENV is development (the value taken when it is unset);
\* the detail is the message of the error that was thrown.
C31_DetailOnlyInDevelopment ==
    IndexingThrew =>
        /\ GenericFailure
        /\ Has(ixResponse.body, "details") <=> nodeEnv = "development"
        /\ Has(ixResponse.body, "details") =>
              ixResponse.body.details \in
                  {ZeroChunksText, EmptyVectorsText, MismatchText} \cup ErrorMessages

\* C31 witness: indexing failed on a server whose NODE_ENV is test and the
\* failure was reported without detail.
C31_Witness ==
    /\ IndexingThrew
    /\ GenericFailure
    /\ nodeEnv = "test"
    /\ ~Has(ixResponse.body, "details")

\* ------------------------------------------------ batching
\* the upsert calls of the indexing request that have completed, in order
UpsertCalls == SelectSeq(ixExt, LAMBDA e : e.call = "index.upsert")

\* ceil(n / batchSize)
BatchCount(n) == (n + BatchSize - 1) \div BatchSize

\* records lo..hi, hi capped at the number of records
RecordRange(lo, hi) ==
    SubSeq(records, lo, IF hi < Len(records) THEN hi ELSE Len(records))

\* C32: the k-th upsert call carries records 100(k-1)+1 .. 100k (the last
\* one the 1..100 records that remain), so batches are consecutive and in
\* record order; there are never more than ceil(n/100) calls; while an
\* upsert is in flight every earlier upsert has been fulfilled and the one
\* in flight is the next batch; on success there were ceil(n/100) calls,
\* every record is in exactly one batch and the returned count is n.
C32_SequentialBatches ==
    LET ups == UpsertCalls
        n == Len(records)
    IN  /\ Len(ups) <= BatchCount(n)
        /\ \A k \in DOMAIN ups :
              /\ ups[k].batch = RecordRange(BatchSize * (k - 1) + 1, BatchSize * k)
              /\ Len(ups[k].batch) \in 1..BatchSize
              /\ k < Len(ups) => ups[k].status = "fulfilled"
              /\ k < BatchCount(n) => Len(ups[k].batch) = BatchSize
        /\ ixPc = "upsert" =>
              /\ batchStart = BatchSize * Len(ups)
              /\ batchStart < n
              /\ \A k \in DOMAIN ups : ups[k].status = "fulfilled"
        /\ IndexSucceeded =>
              /\ Len(ups) = BatchCount(n)
              /\ \A i \in DOMAIN records :
                    Cardinality({<<k, j>> \in (DOMAIN ups) \X (1..BatchSize) :
                                    /\ j \in DOMAIN ups[k].batch
                                    /\ ups[k].batch[j] = records[i]}) = 1
              /\ ixResponse.body.recordCount = n

\* C32 witness: 2 * 100 + 1 records were stored with three upserts, the last
\* of one record.
C32_Witness ==
    /\ IndexSucceeded
    /\ Len(records) = 2 * BatchSize + 1
    /\ Len(UpsertCalls) = 3
    /\ Len(UpsertCalls[3].batch) = 1

\* ------------------------------------------------ stage order
\* the stage of an external call of the indexing request
IndexStage(e) ==
    IF e.call = "splitText" THEN 1
    ELSE IF e.call = "embedDocuments" THEN 2
    ELSE IF e.call = "index.upsert" THEN 3
    ELSE 0

\* the stage of an external call of the query request: classification,
\* retrieval (embedding the query, then querying the index), generation;
\* 0 for a call of the file system
QueryStage(e) ==
    IF e.call = "generateContent"
    THEN (IF Has(e, "by") /\ e.by = "analyzeIntent" THEN 1 ELSE 4)
    ELSE IF e.call = "embedQuery" THEN 2
    ELSE IF e.call = "index.query" THEN 3
    ELSE 0

\* the external calls of the query request that belong to a stage
StageCalls == SelectSeq(ext, LAMBDA e : QueryStage(e) > 0)

\* every call of the sequence but the last was fulfilled
OnlyLastMayFail(seq) == \A k \in 1..(Len(seq) - 1) : seq[k].status = "fulfilled"

\* C33: the external calls of a request were made one after the other in
\* stage order (chunking, embedding, upserts; classification, retrieval,
\* generation), each after the one before it was fulfilled, so a call that
\* failed is the last of its request; a stage that failed without a
\* rejected call (no chunk, no usable vector) is followed by no later stage;
\* and the call a request is waiting for is the only one not yet completed.
C33_StagesInOrder ==
    /\ \A j, k \in DOMAIN ixExt :
          j < k =>
             /\ IndexStage(ixExt[j]) <= IndexStage(ixExt[k])
             /\ IndexStage(ixExt[j]) = IndexStage(ixExt[k]) => ixExt[k].call = "index.upsert"
    /\ \A k \in DOMAIN ixExt : IndexStage(ixExt[k]) > 0
    /\ OnlyLastMayFail(ixExt)
    /\ (~NoCall("splitText") /\ chunks = <<>>) => ixPc = "done" /\ Len(ixExt) = 1
    /\ (~NoCall("embedDocuments") /\ vectors = <<>>) => ixPc = "done" /\ Len(ixExt) = 2
    /\ ixPc = "splitText" => ixExt = <<>>
    /\ ixPc = "embedDocuments" => Len(ixExt) = 1 /\ ixExt[1].status = "fulfilled"
    /\ ixPc = "upsert" =>
          /\ Len(ixExt) >= 2
          /\ ixExt[Len(ixExt)].status = "fulfilled"
          /\ IndexStage(ixExt[1]) = 1
          /\ IndexStage(ixExt[2]) = 2
    /\ \A j, k \in DOMAIN StageCalls :
          j < k => QueryStage(StageCalls[j]) < QueryStage(StageCalls[k])
    /\ OnlyLastMayFail(StageCalls)
    /\ pc = "analyze" => ext = <<>>
    /\ pc = "exec" => Len(ext) = 1 /\ QueryStage(ext[1]) = 1
    /\ pc = "generate" =>
          /\ Len(ext) = 3
          /\ \A k \in 1..3 : QueryStage(ext[k]) = k /\ ext[k].status = "fulfilled"
    /\ (StageCalls # <<>> /\ QueryStage(StageCalls[Len(StageCalls)]) = 4) =>
          Len(StageCalls) = 4

\* C33 witness: the index rejected the query of an answer_question request;
\* the request is over and made no generation call.
C33_Witness ==
    /\ pc = "done"
    /\ intent = ANSWER_QUESTION
    /\ Len(ext) = 3
    /\ ext[3].call = "index.query"
    /\ ext[3].status = "rejected"

\* ------------------------------------------------ result order
\* the match has metadata whose text is a string
CarriesStringText(match) ==
    /\ Has(match, "metadata")
    /\ Has(match.metadata, "text")
    /\ match.metadata.text.ty = "string"

\* the match has metadata whose text is a string that is not empty
CarriesNonEmptyText(match) ==
    /\ CarriesStringText(match)
    /\ match.metadata.text.v # <<>>

\* results are the matches that satisfy Keep, in the order of the matches,
\* each once, the content of a result being the text of its match
ResultsFollow(results, matches, Keep(_)) ==
    LET kept == {k \in DOMAIN matches : Keep(matches[k])}
    IN  /\ Len(results) = Cardinality(kept)
        /\ \A k \in kept :
              LET i == Cardinality({j \in kept : j <= k})
              IN  /\ i \in DOMAIN results
                  /\ Has(results[i], "content")
                  /\ results[i].content = matches[k].metadata.text

\* the index answered the query of a direct searchKnowledgeBase call and
\* the call returned a list of results
SearchListed ==
    /\ IndexAnswered
    /\ calls[1].res.kind = "return"
    /\ Has(calls[1].res.value, "results")

\* C34 as claimed: the results of searchKnowledgeBase are the matches of the
\* index that carry string text metadata, in the order of the matches, none
\* of them reordered, duplicated or invented, and the content of each
\* result is the metadata text of its match.
C34_OrderOfStringTextMatches ==
    SearchListed =>
        ResultsFollow(calls[1].res.value.results, calls[2].res.value, CarriesStringText)

\* C34 amended: the results of searchKnowledgeBase are the matches of the
\* index whose metadata text is a non-empty string, in the order of the
\* matches, none of them reordered, duplicated or invented, and the content
\* of each result is the metadata text of its match.
C34_OrderOfNonEmptyTextMatches ==
    SearchListed =>
        ResultsFollow(calls[1].res.value.results, calls[2].res.value, CarriesNonEmptyText)

\* C34 witness: the index returned a match of empty text followed by two
\* matches of different texts, and the search returned two results.
C34_Witness ==
    /\ SearchListed
    /\ Len(calls[2].res.value) = 3
    /\ CarriesStringText(calls[2].res.value[1])
    /\ ~CarriesNonEmptyText(calls[2].res.value[1])
    /\ CarriesNonEmptyText(calls[2].res.value[2])
    /\ CarriesNonEmptyText(calls[2].res.value[3])
    /\ calls[2].res.value[2].metadata.text # calls[2].res.value[3].metadata.text
    /\ Len(calls[1].res.value.results) = 2

\* ------------------------------------------------ count monotonicity
\* C35: no step lowers the persisted count: a write that completes never
\* stores a value smaller than the value the file held before it.
C35_CountNeverDecreases ==
    [][ReadCount(countFile') >= ReadCount(countFile)]_vars

\* ------------------------------------------------ intent errors
\* analyzeIntent returned an object with an error property
IntentErrorReported ==
    /\ intentResult.kind = "return"
    /\ Has(intentResult.value, "error")

\* C36: when analyzeIntent reports an error the handler answers with
\* success = false and executeTools is not invoked: no collaborator is
\* called, no external call follows the model call of analyzeIntent and no
\* tool output exists.
C36_IntentErrorStopsRequest ==
    IntentErrorReported =>
        /\ pc = "done"
        /\ response # None
        /\ response.body.success = FALSE
        /\ calls = <<>>
        /\ Len(ext) = 1
        /\ toolResult = None
        /\ finalAnswer = None

\* ------------------------------------------------ variant tags
\* executeTools has returned an output
ToolOutputReturned ==
    /\ pc = "respond"
    /\ toolResult.kind = "return"

\* C37: the output of a search_knowledge_base dispatch has the tag search
\* when the retriever returned, whatever its result object holds, and the
\* tag error when the retriever threw; every tool output has one of the
\* tags answer, search, query_count, error.
C37_SearchTagFixed ==
    ToolOutputReturned =>
        /\ Has(toolResult.value, "type")
        /\ toolResult.value.type \in Variants
        /\ (intent = SEARCH_KNOWLEDGE_BASE /\ Len(calls) = 1) =>
              toolResult.value.type =
                  IF calls[1].res.kind = "return" THEN SEARCH ELSE ERROR

\* ------------------------------------------------ one response a request
\* the handler of the query or search request has finished
Handled == pc \in {"done", "skb.done"}

\* C38: a handler that has finished has sent a response (never zero); the
\* response of a request is written once, by the step that ends the
\* handler, and is not written again until the next request arrives (never
\* two); this on every path, those where a collaborator fails or the log
\* cannot be written included.
C38_ExactlyOneResponse ==
    /\ [](Handled => response # None)
    /\ [](ixPc = "done" => ixResponse # None)
    /\ [](~Handled => response = None)
    /\ [](ixPc # "done" => ixResponse = None)
    /\ [][(response' # response /\ reqs' = reqs) =>
             /\ response = None
             /\ response' # None
             /\ Handled']_vars
    /\ [][ixResponse' # ixResponse =>
             /\ ixResponse = None
             /\ ixResponse' # None
             /\ ixPc' = "done"]_vars

\* C38 witness: a search request was answered with success although its
\* query log could not be written.
C38_Witness ==
    /\ pc = "skb.done"
    /\ response # None
    /\ response.status = 200
    /\ Len(calls) = 3
    /\ logFile = <<>>

\* ------------------------------------------------ termination
\* C39: a query request that entered its handler is eventually answered,
\* an indexing request that entered its handler is eventually answered,
\* and the batch loop never makes more than ceil(n/100) upsert calls.
C39_EveryRequestAnswered ==
    /\ (pc # "idle") ~> (pc = "done" /\ response # None)
    /\ (ixPc # "idle") ~> (ixPc = "done" /\ ixResponse # None)
    /\ [](Len(UpsertCalls) <= BatchCount(Len(records)))

\* C39 witness: an indexing request of two full batches was answered after
\* exactly two upsert calls.
C39_Witness ==
    /\ ixPc = "done"
    /\ ixResponse # None
    /\ Len(records) = 2 * BatchSize
    /\ Len(UpsertCalls) = 2
    /\ UpsertCalls[2].status = "fulfilled"

====
